---- MODULE Spec2Model ----
(***************************************************************************)
(* SkyHamSat: pass prediction, pass lines and Doppler shift of the main    *)
(* window (src/SkyHamSat.py).                                              *)
(*                                                                         *)
(* Times are whole seconds (the source keeps Julian days as floats; one    *)
(* second is JULIAN_SEC days).  Text strings that the code searches or     *)
(* parses are sequences of one-character strings.  The skyfield library    *)
(* (find_events, altaz, position, velocity) is the environment: its        *)
(* results are inputs drawn from bounded sets.                              *)
(***************************************************************************)
EXTENDS Integers, Sequences, FiniteSets, TLC

\* ------------------------------------------------------------------ bounds

\* grid instants after `now` at which find_events may report an event (handlers)
MaxTick == 3
\* most events one find_events call reports (handlers)
MaxEvents == 4
\* largest value of spinBoxNextPasses
MaxN == 1
\* seconds between two grid instants
TickSeconds == 25
\* the clock reading of ts.now(), in seconds
NowBase == 1000
\* most seconds the clock advances between two ts.now() reads of one handler
MaxSkew == 1
\* find_events as transit_list_sorted_by_time calls it: events at
\* NowBase + k * TickSeconds for k <= BatchMaxTick, at most BatchMaxEvents of them
BatchMaxTick == 2
BatchMaxEvents == 2
\* the events of one turn of transit_list_sorted_by_time when the timer has
\* called it
TimerMaxEvents == 1
\* the same two for the listing of the upcoming passes taken alone
UpcomingMaxTick == 3
UpcomingMaxEvents == 3
\* the same three for get_next_passes taken alone
FnMaxTick == 4
FnMaxEvents == 5
FnMaxN == 3
\* create_pass_line taken alone: rise and set are at most this many seconds after
\* NowBase, interval and text_every_point at most these
LineMaxRise == 2
LineMaxSet == 21
LineMaxInterval == 4
LineMaxTextEvery == 3

\* get_alt_azimuth taken alone: the components of a position (km), of a velocity
\* (km/s), and the altitude (degrees) above or below the horizon
PosMax == 2
VelMax == 1
MaxAlt == 10

\* the elevation (m) a user has stored in the settings
SettingsElevation == 250

\* downloads of the element sets after start-up
MaxDownloads == 2

\* the texts a graph holds at most, texts and polarTexts together
MaxTexts == 3

\* the texts a graph holds at most when it is re-created
MaxCreateTexts == 2

\* the lines of satslist.csv at most
MaxCsvRows == 3

\* the check boxes and comboBoxMode taken alone: find_events returns events at
\* NowBase + k * TickSeconds for k <= ChecksMaxTick, at most ChecksMaxEvents of
\* them, and spinBoxNextPasses is at most ChecksMaxN
ChecksMaxTick == 1
ChecksMaxEvents == 2
ChecksMaxN == 1

\* ------------------------------------------------------- program constants

\* get_next_passes(satellite_name, 10) of the text listing
ListingPasses == 10
\* create_pass_line(..., 30, colour, 4): seconds between points
DrawInterval == 30
\* create_pass_line(..., 30, colour, 4): points between texts
DrawTextEvery == 4
\* the marker size of a pass line point
PointSize == 4
\* the 300000 of on_auto_update_timer: the speed of light in km/s
SpeedOfLight == 300000

\* hours_to_show = 3
hours_to_show == 3

plot_colours == <<"firebrick", "sandybrown", "olive", "darkgreen", "purple", "blue">>

\* ----------------------------------------------------------------- strings

DigitChars == <<"0", "1", "2", "3", "4", "5", "6", "7", "8", "9">>

DigitVal(c) == CHOOSE d \in 0..9 : DigitChars[d + 1] = c

IsDigit(c) == \E d \in 0..9 : DigitChars[d + 1] = c

\* str(n) of a non-negative int
RECURSIVE IntToStr(_)
IntToStr(n) ==
    IF n < 10 THEN <<DigitChars[n + 1]>>
    ELSE IntToStr(n \div 10) \o <<DigitChars[(n % 10) + 1]>>

\* the characters of a text, one string each
Chars(s) == [i \in 1..Len(s) |-> SubSeq(s, i, i)]

\* the characters int() and float() skip at both ends of their argument, among
\* those a string of the model can hold (U+0000 to U+00FF): tab, line feed,
\* vertical tab, form feed, carriage return, space, U+0085 and U+00A0
Whitespace == {" ", "\t", "\n", "", "\f", "\r", "", " "}

\* the characters str.strip() takes off both ends: those of str.isspace(), the
\* separators U+001C to U+001F among them
StrWhitespace == Whitespace \cup {"", "", "", ""}

RECURSIVE LStrip(_)
LStrip(s) == IF Len(s) > 0 /\ s[1] \in Whitespace THEN LStrip(Tail(s)) ELSE s

RECURSIVE RStrip(_)
RStrip(s) ==
    IF Len(s) > 0 /\ s[Len(s)] \in Whitespace THEN RStrip(SubSeq(s, 1, Len(s) - 1)) ELSE s

\* the argument of int() or float() without the white space at its ends
Strip(s) == RStrip(LStrip(s))

\* a numeral without its sign
Unsigned(t) == IF Len(t) > 0 /\ t[1] \in {"+", "-"} THEN Tail(t) ELSE t

IsNegative(t) == Len(t) > 0 /\ t[1] = "-"

\* digits, with single underscores between digits
DigitPart(b) ==
    /\ Len(b) > 0 /\ IsDigit(b[1]) /\ IsDigit(b[Len(b)])
    /\ \A i \in 1..Len(b) :
          \/ IsDigit(b[i])
          \/ b[i] = "_" /\ IsDigit(b[i - 1]) /\ IsDigit(b[i + 1])

\* the value of a digit part; the underscores count for nothing
RECURSIVE DigitsToInt(_)
DigitsToInt(b) ==
    IF Len(b) = 0 THEN 0
    ELSE IF b[Len(b)] = "_" THEN DigitsToInt(SubSeq(b, 1, Len(b) - 1))
    ELSE 10 * DigitsToInt(SubSeq(b, 1, Len(b) - 1)) + DigitVal(b[Len(b)])

\* sys.int_max_str_digits of CPython 3.11 and later: int() of a text with more
\* digits raises ValueError
MaxStrDigits == 4300

\* the digits of a numeral, leading zeros among them; underscores do not count
DigitCount(b) == Cardinality({i \in 1..Len(b) : IsDigit(b[i])})

\* int(s) raises no ValueError: white space around, a sign, then a digit part
\* of at most MaxStrDigits digits
IntParses(s) ==
    /\ DigitPart(Unsigned(Strip(s)))
    /\ DigitCount(Unsigned(Strip(s))) <= MaxStrDigits

\* int(s)
StrToInt(s) ==
    LET t == Strip(s)
    IN IF IsNegative(t) THEN 0 - DigitsToInt(Unsigned(t)) ELSE DigitsToInt(Unsigned(t))

\* the first place of a character of `chars` in s, 0 if there is none
FirstOf(s, chars) ==
    IF \E i \in 1..Len(s) : s[i] \in chars
    THEN CHOOSE i \in 1..Len(s) : s[i] \in chars /\ \A j \in 1..(i - 1) : s[j] \notin chars
    ELSE 0

\* the text in lower case, for the letters of inf and nan
Lower(s) ==
    [i \in 1..Len(s) |->
        CASE s[i] = "I" -> "i" [] s[i] = "N" -> "n" [] s[i] = "F" -> "f"
          [] s[i] = "A" -> "a" [] s[i] = "T" -> "t" [] s[i] = "Y" -> "y"
          [] OTHER -> s[i]]

\* the parts of a float literal without sign: mantissa before and after the
\* point, and the exponent ("none" where there is no e)
FloatParts(b) ==
    LET e == FirstOf(b, {"e", "E"})
        mantissa == IF e = 0 THEN b ELSE SubSeq(b, 1, e - 1)
        dot == FirstOf(mantissa, {"."})
    IN [pointed |-> dot # 0,
        whole |-> IF dot = 0 THEN mantissa ELSE SubSeq(mantissa, 1, dot - 1),
        fraction |-> IF dot = 0 THEN <<>> ELSE SubSeq(mantissa, dot + 1, Len(mantissa)),
        has_exponent |-> e # 0,
        exponent |-> IF e = 0 THEN <<>> ELSE SubSeq(b, e + 1, Len(b))]

\* the digits of a digit part
Digits(b) == SelectSeq(b, IsDigit)

RECURSIVE NoLeadingZeros(_)
NoLeadingZeros(d) == IF Len(d) > 0 /\ d[1] = "0" THEN NoLeadingZeros(Tail(d)) ELSE d

\* 0.a <= 0.b for two sequences of digits read as decimal fractions
RECURSIVE DigitsLeq(_, _)
DigitsLeq(a, b) ==
    IF Len(a) = 0 THEN TRUE
    ELSE IF Len(b) = 0 THEN \A i \in 1..Len(a) : a[i] = "0"
    ELSE IF a[1] = b[1] THEN DigitsLeq(Tail(a), Tail(b))
    ELSE DigitVal(a[1]) < DigitVal(b[1])

\* The doubles of float(): a literal of 2^1024 - 2^970 or more is rounded to
\* inf, one of 2^-1075 or less to 0.  Both bounds as 0.digits * 10^exponent.
OverflowExponent == 309
OverflowDigits ==
    Chars("1797693134862315807937289714053034150799341327100378269361737789"
          \o "8044496829276475094664901797758720709633028641669288791094655554"
          \o "7851940402630657488671505820681908902000708383676273854845817711"
          \o "5317644757302700698555713669596228429148198608349364752927190741"
          \o "68444365510704342711559699508093042880177904174497792")
UnderflowExponent == -323
UnderflowDigits ==
    Chars("2470328229206232720882843964341106861825299013071623822127928412"
          \o "5033775363510437593264991818081799618989828234772285886546332835"
          \o "5177969898199387398005390939063150356595155702263922908583924491"
          \o "0518443593180284993653615250031937045767824921936562366986365848"
          \o "0757001585769269903706311928279558551332927834338409351978015531"
          \o "2465972635795746227664652728272200563740064854999770965994704540"
          \o "2082816622623785739345073633900796776193057750674017632467360096"
          \o "8951340535537458516661134223766678604162159680461914467291840300"
          \o "5300575308490487653917113865916462395249126236538818796362393732"
          \o "8042389101867234849766823508986338858792562830275599565752445550"
          \o "7255189313690836254779186948667994968324049705821028513185451396"
          \o "213837722826145437693412532098591327667236328125")

\* the exponents float() is followed through digit by digit; a longer one is
\* beyond every double
MaxExponentDigits == 6

\* a literal of float() without sign as 0.digits * 10^exponent; `zero`: all
\* its digits are 0; `far`: 1 or -1 for an exponent of more than
\* MaxExponentDigits digits
MagnitudeOfDigits(p, all) ==
    LET digits == NoLeadingZeros(all)
        far == Len(NoLeadingZeros(Digits(p.exponent))) > MaxExponentDigits
    IN [zero |-> Len(digits) = 0,
        digits |-> digits,
        far |-> IF ~far THEN 0 ELSE IF IsNegative(p.exponent) THEN -1 ELSE 1,
        exponent |-> Len(Digits(p.whole)) - (Len(all) - Len(digits))
                       + (IF far \/ ~p.has_exponent THEN 0 ELSE StrToInt(p.exponent))]

MagnitudeOfParts(p) == MagnitudeOfDigits(p, Digits(p.whole) \o Digits(p.fraction))

Magnitude(b) == MagnitudeOfParts(FloatParts(b))

\* float() rounds the literal to inf
Overflows(b) ==
    \E m \in { Magnitude(b) } :
       /\ ~m.zero
       /\ \/ m.far = 1
          \/ m.far = 0 /\ m.exponent > OverflowExponent
          \/ m.far = 0 /\ m.exponent = OverflowExponent
                       /\ DigitsLeq(OverflowDigits, m.digits)

\* float() rounds the literal to 0
Underflows(b) ==
    \E m \in { Magnitude(b) } :
       \/ m.zero
       \/ m.far = -1
       \/ m.far = 0 /\ m.exponent < UnderflowExponent
       \/ m.far = 0 /\ m.exponent = UnderflowExponent
                    /\ DigitsLeq(m.digits, UnderflowDigits)

\* the parts are those of a float literal: digits before or after the point,
\* and digits after the e and its sign
IsFloatLiteral(p) ==
    /\ IF p.pointed
       THEN /\ p.whole = <<>> \/ DigitPart(p.whole)
            /\ p.fraction = <<>> \/ DigitPart(p.fraction)
            /\ p.whole # <<>> \/ p.fraction # <<>>
       ELSE DigitPart(p.whole)
    /\ p.has_exponent => DigitPart(Unsigned(p.exponent))

\* float() of a text without white space and sign
FloatKindOf(b) ==
    IF Lower(b) \in { <<"i", "n", "f">>, <<"i", "n", "f", "i", "n", "i", "t", "y">> }
    THEN "inf"
    ELSE IF Lower(b) = <<"n", "a", "n">> THEN "nan"
    ELSE IF IsFloatLiteral(FloatParts(b))
    THEN IF Overflows(b) THEN "inf" ELSE "finite"
    ELSE "ValueError"

\* float(s): "ValueError", "inf", "nan" or "finite"
FloatKind(s) == FloatKindOf(Unsigned(Strip(s)))

\* float(s) raises no ValueError
FloatParses(s) == FloatKind(s) # "ValueError"

RECURSIVE PowerOfTen(_)
PowerOfTen(n) == IF n = 0 THEN 1 ELSE 10 * PowerOfTen(n - 1)

\* the value of the parts of a finite literal as <<numerator, denominator>>
Ratio(p, negative) ==
    LET mantissa == DigitsToInt(p.whole \o p.fraction)
        places == Len(Digits(p.fraction))
        exponent == IF p.has_exponent THEN StrToInt(p.exponent) ELSE 0
        num == IF exponent > 0 THEN mantissa * PowerOfTen(exponent) ELSE mantissa
        den == IF exponent < 0 THEN PowerOfTen(places - exponent) ELSE PowerOfTen(places)
    IN <<IF negative THEN 0 - num ELSE num, den>>

\* float(s) of a finite literal as <<numerator, denominator>>
StrToFloat(s) ==
    IF Underflows(Unsigned(Strip(s))) THEN <<0, 1>>
    ELSE Ratio(FloatParts(Unsigned(Strip(s))), IsNegative(Strip(s)))

\* Python's `s in t` on strings
IsSubstring(s, t) ==
    \E i \in 0..(Len(t) - Len(s)) : SubSeq(t, i + 1, i + Len(s)) = s

RECURSIVE JoinKeys(_)
JoinKeys(keys) ==
    IF Len(keys) = 0 THEN <<>>
    ELSE IF Len(keys) = 1 THEN IntToStr(keys[1])
    ELSE IntToStr(keys[1]) \o <<",", " ">> \o JoinKeys(Tail(keys))

\* str(numbers.keys()): "dict_keys([7, 25])"
StrOfDictKeys(keys) ==
    <<"d", "i", "c", "t", "_", "k", "e", "y", "s", "(", "[">>
        \o JoinKeys(keys) \o <<"]", ")">>

\* ------------------------------------------------------------ the data set

\* The satellite names of the model in Python's string order
NameOrder == <<"AO-7", "FO-29", "SO-50", "XW-2A">>

Rank(name) == CHOOSE i \in 1..Len(NameOrder) : NameOrder[i] = name

None == "None"

\* Entries of satslist.json.  A feature field is TRUE when its list is not empty.
SatAO7 ==
    [Satellite |-> "AO-7", Number |-> <<"7">>, TransponderUplink |-> TRUE,
     Uplinks |-> FALSE, Downlinks |-> FALSE, Beacons |-> TRUE, Modes |-> {"SSB"}]

SatFO29 ==
    [Satellite |-> "FO-29", Number |-> <<"2", "5">>, TransponderUplink |-> TRUE,
     Uplinks |-> FALSE, Downlinks |-> FALSE, Beacons |-> TRUE, Modes |-> {"SSB"}]

\* "5" is found in "dict_keys([7, 25])", and 5 is no key of by_number
SatSO50 ==
    [Satellite |-> "SO-50", Number |-> <<"5">>, TransponderUplink |-> FALSE,
     Uplinks |-> TRUE, Downlinks |-> TRUE, Beacons |-> FALSE, Modes |-> {"FM"}]

\* the default Number '' is found in every string, and int('') raises ValueError
SatXW2A ==
    [Satellite |-> "XW-2A", Number |-> <<>>, TransponderUplink |-> FALSE,
     Uplinks |-> FALSE, Downlinks |-> TRUE, Beacons |-> TRUE, Modes |-> {"FM"}]

\* satslist.json files (json.load keeps the file's order)
Databases ==
    { <<SatSO50, SatAO7>>, <<SatAO7, SatXW2A, SatFO29>>, <<SatXW2A, SatAO7>> }

\* the satnum of each element set of amateur.txt, in file order
TleFiles == { <<7, 25>>, <<25>> }

\* load.tle_file(stations_url): the element sets of the file as it is at the
\* download numbered `download`
ElementSets(file, download) ==
    [i \in 1..Len(file) |-> [satnum |-> file[i], download |-> download]]

\* the keys of the dict `numbers`, {sat.model.satnum: sat for sat in ...}: a
\* number is a key once, at the place of its first element set
Satnums(objs) ==
    LET first == { i \in 1..Len(objs) :
                     \A j \in 1..(i - 1) : objs[j].satnum # objs[i].satnum }
        place(k) == CHOOSE i \in first : Cardinality({ j \in first : j <= i }) = k
    IN [k \in 1..Cardinality(first) |-> objs[place(k)].satnum]

\* {sat.model.satnum : sat for sat in objs}: the last set of a number is kept
ByNumber(objs) ==
    [n \in { objs[i].satnum : i \in 1..Len(objs) } |->
        objs[CHOOSE i \in 1..Len(objs) :
                 /\ objs[i].satnum = n
                 /\ \A j \in (i + 1)..Len(objs) : objs[j].satnum # n]]

\* QSettings('G4AUC', 'SkyHamSat'): the stored observer location; None for a
\* text that is not stored, <<>> for a number that is not stored
NoSettings == [mylatitude |-> None, mylongitude |-> None, myelevation |-> <<>>]

\* home = Topos('51.38833333333 N', '0.75416666666 W', elevation_m=100)
DefaultHome ==
    [latitude |-> "51.38833333333 N", longitude |-> "0.75416666666 W",
     elevation_m |-> 100]

\* states of checkBoxTransponder/Uplink/Downlink/Beacon and comboBoxMode
CheckBoxStates ==
    { [Transponder |-> TRUE, Uplink |-> TRUE, Downlink |-> TRUE, Beacon |-> TRUE,
       Mode |-> "Any"],
      [Transponder |-> FALSE, Uplink |-> FALSE, Downlink |-> TRUE, Beacon |-> FALSE,
       Mode |-> "FM"] }

\* ------------------------------------------------------- sequence helpers

RECURSIVE SelectNames(_)
SelectNames(recs) ==
    IF Len(recs) = 0 THEN <<>> ELSE <<recs[1].Satellite>> \o SelectNames(Tail(recs))

Last(s) == s[Len(s)]

IsPrefix(s, t) == Len(s) <= Len(t) /\ SubSeq(t, 1, Len(s)) = s

\* list comparison of Python for the rows [rise, transit, set, name]
RowLess(a, b) ==
    \/ a[1] < b[1]
    \/ a[1] = b[1] /\ a[2] < b[2]
    \/ a[1] = b[1] /\ a[2] = b[2] /\ a[3] < b[3]
    \/ a[1] = b[1] /\ a[2] = b[2] /\ a[3] = b[3] /\ Rank(a[4]) < Rank(b[4])

RECURSIVE InsertRow(_, _)
InsertRow(sorted, row) ==
    IF Len(sorted) = 0 THEN <<row>>
    ELSE IF RowLess(row, sorted[1]) THEN <<row>> \o sorted
    ELSE <<sorted[1]>> \o InsertRow(Tail(sorted), row)

\* the list left as it was appended to
SortRowsForgotten(rows) == rows

\* list.sort(): stable, ascending
RECURSIVE SortRows(_)
SortRows(rows) ==
    IF Len(rows) = 0 THEN <<>>
    ELSE InsertRow(SortRows(SubSeq(rows, 1, Len(rows) - 1)), Last(rows))

\* ------------------------------------------------------------------ state

VARIABLES
    satellite_data,          \* json.load of satslist.json: the entries in file order
    satellite_body_objects,  \* self.satellite_body_objects: the loaded element sets
    by_number,               \* self.by_number: satnum -> element set
    settings,                \* the observer location stored in QSettings
    home,                    \* the module's global `home`
    satellites,              \* self.satellites: the merged entries, in dict order
    checks,                  \* the check boxes and comboBoxMode
    spinBoxNextPasses,       \* spinBoxNextPasses.value()
    selected_satellite,      \* comboBoxSelectSatelllite's current item data, or None
    lines,                   \* self.lines
    next_pass_polar_lines,   \* self.next_pass_polar_lines
    call,                    \* the handler that runs: its inputs and its results
    batch,                   \* the loop over the filtered satellites that runs
    timer,                   \* on_auto_update_timer: its position and its locals
    fn                       \* a method under test: its arguments and its result

vars ==
    <<satellite_data, satellite_body_objects, by_number, settings, home, satellites,
      checks, spinBoxNextPasses, selected_satellite, lines, next_pass_polar_lines,
      call, batch, timer, fn>>

\* what set_up_satellite_data and the check boxes fix
config ==
    <<satellite_data, satellite_body_objects, by_number, settings, home, satellites,
      checks>>

\* what the handlers of the selected satellite write
drawn == <<lines, next_pass_polar_lines>>


\* ------------------------------------------------------ set_up_satellite_data

\* self.satellites = {s: ... for s in self.satellite_data
\*                    if self.satellite_data[s]['Number'] in str(numbers.keys())}
RECURSIVE MergeLoop(_, _)
MergeLoop(data, keys) ==
    IF Len(data) = 0 THEN <<>>
    ELSE IF IsSubstring(data[1].Number, StrOfDictKeys(keys))
         THEN <<data[1]>> \o MergeLoop(Tail(data), keys)
         ELSE MergeLoop(Tail(data), keys)


RECURSIVE FilterLoop(_, _, _)
FilterLoop(sats, cb, dont_filter) ==
    IF Len(sats) = 0 THEN <<>>
    ELSE LET s == sats[1]
             hasTransponder == cb.Transponder /\ s.TransponderUplink
             hasUplink == cb.Uplink /\ s.Uplinks
             hasDownlink == cb.Downlink /\ s.Downlinks
             hasBeacon == cb.Beacon /\ s.Beacons
             hasMode == (cb.Mode = "Any") \/ (cb.Mode \in s.Modes)
             rest == FilterLoop(Tail(sats), cb, dont_filter)
         IN IF (hasTransponder \/ hasUplink \/ hasDownlink \/ hasBeacon \/ dont_filter)
               /\ hasMode
            THEN <<s>> \o rest
            ELSE rest

\* the satellite dicts the generator yields, in order
satellites_filtered_by_check_boxes(sats, cb) == FilterLoop(sats, cb, FALSE)

RECURSIVE SortNames(_)
SortNames(names) ==
    IF Len(names) = 0 THEN <<>>
    ELSE LET rest == SortNames(SubSeq(names, 1, Len(names) - 1))
             n == Last(names)
             before == SelectSeq(rest, LAMBDA m : Rank(m) <= Rank(n))
             after == SelectSeq(rest, LAMBDA m : Rank(m) > Rank(n))
         IN before \o <<n>> \o after

\* the item data of comboBoxSelectSatelllite after fill_select_satellite_combo
fill_select_satellite_combo(sats, cb) ==
    SortNames(SelectNames(satellites_filtered_by_check_boxes(sats, cb)))

\* itemData(currentIndex()) after setCurrentIndex(0): None when the box is empty
FirstItem(items) == IF Len(items) = 0 THEN None ELSE items[1]

\* --------------------------------------------------------------- the events

\* find_events numbers the events 0 (rise), 1 (culminate), 2 (set)
event_names == <<"rise", "transit", "set">>

\* the grid instants of the window [now, now + 1 day]
WindowTimes(now, ticks) == { now + k * TickSeconds : k \in 0..ticks }

RECURSIVE SortedSeq(_)
SortedSeq(S) ==
    IF S = {} THEN <<>>
    ELSE LET m == CHOOSE x \in S : \A y \in S : x <= y
         IN <<m>> \o SortedSeq(S \ {m})

\* the events of find_events at the instants T, the first one of kind `first`:
\* rise, culmination and set follow each other in time order
EventsAt(T, first) ==
    LET ts == SortedSeq(T)
    IN [i \in 1..Len(ts) |-> <<ts[i], (first + i - 1) % 3>>]

\* what satellite.find_events(home, now_ts, end_ts) may return
FoundLists(now, ticks, most) ==
    { EventsAt(T, first) :
        T \in { U \in SUBSET WindowTimes(now, ticks) : Cardinality(U) <= most },
        first \in 0..2 }

\* what find_events returns for a satellite that stays above the horizon from
\* now to now + 1 day: its culminations, and neither a rise nor a set
CulminationLists(now, ticks, most) ==
    { [i \in 1..Cardinality(T) |-> <<SortedSeq(T)[i], 1>>] :
        T \in { U \in SUBSET WindowTimes(now, ticks) : Cardinality(U) <= most } }

\* ------------------------------------------------------------ the look-up

\* satellite_number = self.satellites[satellite_name]['Number']
\* satellite = self.by_number[int(satellite_number)]
LookUp(sats, keys, satellite_name) ==
    LET hits == SelectSeq(sats, LAMBDA s : s.Satellite = satellite_name)
    IN IF Len(hits) = 0 THEN "KeyError"
       ELSE IF ~IntParses(hits[1].Number) THEN "ValueError"
       ELSE IF StrToInt(hits[1].Number) \notin keys THEN "KeyError"
       ELSE "ok"

\* ---------------------------------------------------------- get_next_passes

\* the loop with the cap tested one pass late
RECURSIVE EventLoopLateCap(_, _, _, _, _)
EventLoopLateCap(found, i, passes, number_of_passes, event_list) ==
    IF i > Len(found) THEN event_list
    ELSE IF passes > number_of_passes THEN event_list
    ELSE LET event_name == event_names[found[i][2] + 1]
         IN EventLoopLateCap(found, i + 1,
                      IF event_name = "set" THEN passes + 1 ELSE passes,
                      number_of_passes,
                      Append(event_list, <<found[i][1], event_name>>))

\* the loop with event_list.insert(0, ...) for event_list.append(...)
RECURSIVE EventLoopInsertFirst(_, _, _, _, _)
EventLoopInsertFirst(found, i, passes, number_of_passes, event_list) ==
    IF i > Len(found) THEN event_list
    ELSE IF passes >= number_of_passes THEN event_list
    ELSE LET event_name == event_names[found[i][2] + 1]
         IN EventLoopInsertFirst(found, i + 1,
                      IF event_name = "set" THEN passes + 1 ELSE passes,
                      number_of_passes,
                      << <<found[i][1], event_name>> >> \o event_list)

RECURSIVE EventLoop(_, _, _, _, _)
EventLoop(found, i, passes, number_of_passes, event_list) ==
    IF i > Len(found) THEN event_list
    ELSE IF passes >= number_of_passes THEN event_list
    ELSE LET event_name == event_names[found[i][2] + 1]
         IN EventLoop(found, i + 1,
                      IF event_name = "set" THEN passes + 1 ELSE passes,
                      number_of_passes,
                      Append(event_list, <<found[i][1], event_name>>))

\* get_next_passes with an event search that indexes the first event it found
get_next_passes_first_event(sats, keys, satellite_name, number_of_passes, found) ==
    LET lk == LookUp(sats, keys, satellite_name)
    IN [raised |-> IF lk = "KeyError" THEN "KeyError"
                   ELSE IF lk = "ok" /\ Len(found) = 0 THEN "IndexError"
                   ELSE "none",
        searched |-> lk = "ok",
        caught |-> lk = "ValueError",
        event_list |-> IF lk = "ok"
                       THEN EventLoop(found, 1, 0, number_of_passes, <<>>)
                       ELSE <<>>]

\* found: what find_events returns when it is reached.
\* raised: the exception that leaves the method, or "none"
get_next_passes(sats, keys, satellite_name, number_of_passes, found) ==
    LET lk == LookUp(sats, keys, satellite_name)
    IN [raised |-> IF lk = "KeyError" THEN "KeyError" ELSE "none",
        searched |-> lk = "ok",
        caught |-> lk = "ValueError",
        event_list |-> IF lk = "ok"
                       THEN EventLoop(found, 1, 0, number_of_passes, <<>>)
                       ELSE <<>>]

\* --------------------------------------------------------- create_pass_line

NoText == <<>>

\* f' {calendar[3]:02d}:{calendar[4]:02d}:{calendar[5]:02.0f}' as <<hour, minute,
\* second>>.  calendar[5] is a float: for a time of t whole seconds it is the
\* second of t or a little less (`short`), and then hour and minute are those
\* of the second before; ':02.0f' rounds the seconds alone, nothing is carried
\* into the minutes, so a whole minute read short is shown with the seconds 60.
TimeText(t, short) ==
    IF short
    THEN <<((t - 1) \div 3600) % 24, ((t - 1) \div 60) % 60, ((t - 1) % 60) + 1>>
    ELSE <<(t \div 3600) % 24, (t \div 60) % 60, t % 60>>

\* `calc_time < setting_time.tt` on the floats of the code.  calc_time is
\* rise_time.tt to which JULIAN_SEC * interval was added point_number times, each
\* sum rounded: where the exact sum is the set time, the rounded one is below
\* it or not as the values have it (`below`); one step is far larger than the
\* rounding, so at every other time the floats compare as the seconds do.
StillBefore(calc_time, setting_time, point_number, below) ==
    \/ calc_time < setting_time
    \/ calc_time = setting_time /\ point_number > 0 /\ below

\* the loop with `while calc_time <= setting_time.tt`
RECURSIVE PassLineLoopInclusive(_, _, _, _, _, _, _, _, _)
PassLineLoopInclusive(calc_time, setting_time, interval, colour, text_every_point, point_number, pass_line, below, short) ==
    IF ~(calc_time <= setting_time) THEN pass_line
    ELSE LET text_field ==
                 IF text_every_point # 0 /\ point_number % text_every_point = 0
                 THEN TimeText(calc_time, calc_time \in short)
                 ELSE NoText
             point == [at |-> calc_time, colour |-> colour, size |-> PointSize,
                       text |-> text_field]
         IN PassLineLoopInclusive(calc_time + interval, setting_time, interval, colour,
                         text_every_point, point_number + 1,
                         Append(pass_line, point), below, short)

RECURSIVE PassLineLoop(_, _, _, _, _, _, _, _, _)
PassLineLoop(calc_time, setting_time, interval, colour, text_every_point, point_number, pass_line, below, short) ==
    IF ~StillBefore(calc_time, setting_time, point_number, below) THEN pass_line
    ELSE LET text_field ==
                 IF text_every_point # 0 /\ point_number % text_every_point = 0
                 THEN TimeText(calc_time, calc_time \in short)
                 ELSE NoText
             point == [at |-> calc_time, colour |-> colour, size |-> PointSize,
                       text |-> text_field]
         IN PassLineLoop(calc_time + interval, setting_time, interval, colour,
                         text_every_point, point_number + 1,
                         Append(pass_line, point), below, short)

\* create_pass_line without the text of the last point
create_pass_line_no_last_text(rise_time, setting_time, interval, colour, text_every_point, below, short) ==
    PassLineLoop(rise_time, setting_time, interval, colour, text_every_point, 0, <<>>,
                 below, short)

\* A point is [alt, az, colour, 4, text]; `at` is the time whose altitude and
\* azimuth the point holds, to the second.  `below`: the sum that is the set
\* time in exact arithmetic is rounded to a float below setting_time.tt.
\* `short`: the times of the points whose calendar seconds are read short.
create_pass_line(rise_time, setting_time, interval, colour, text_every_point, below, short) ==
    LET pass_line ==
            PassLineLoop(rise_time, setting_time, interval, colour,
                         text_every_point, 0, <<>>, below, short)
        n == Len(pass_line)
    IN IF text_every_point # 0 /\ n > 0
       THEN [pass_line EXCEPT
                ![n].text = TimeText(pass_line[n].at, pass_line[n].at \in short)]
       ELSE pass_line

\* ------------------------------------------------------------ pass records

\* the loop with the slots of rise and transit exchanged
RECURSIVE RowLoopSlots(_, _, _, _)
RowLoopSlots(pass_list, i, pass_info, transit_list) ==
    IF i > Len(pass_list) THEN transit_list
    ELSE LET pass_event == pass_list[i]
         IN IF pass_event[2] = "rise"
            THEN RowLoopSlots(pass_list, i + 1, [pass_info EXCEPT ![2] = pass_event[1]],
                              transit_list)
            ELSE IF pass_event[2] = "transit"
            THEN RowLoopSlots(pass_list, i + 1, [pass_info EXCEPT ![1] = pass_event[1]],
                              transit_list)
            ELSE IF pass_event[2] = "set"
            THEN RowLoopSlots(pass_list, i + 1, <<0, 0, 0, pass_info[4]>>,
                         Append(transit_list, [pass_info EXCEPT ![3] = pass_event[1]]))
            ELSE RowLoopSlots(pass_list, i + 1, pass_info, transit_list)

\* the loop that also appends the pass the event list ends in
RECURSIVE RowLoopKeepsOpenPass(_, _, _, _)
RowLoopKeepsOpenPass(pass_list, i, pass_info, transit_list) ==
    IF i > Len(pass_list)
    THEN IF pass_info[1] # 0 \/ pass_info[2] # 0
         THEN Append(transit_list, pass_info)
         ELSE transit_list
    ELSE LET pass_event == pass_list[i]
         IN IF pass_event[2] = "rise"
            THEN RowLoopKeepsOpenPass(pass_list, i + 1,
                     [pass_info EXCEPT ![1] = pass_event[1]], transit_list)
            ELSE IF pass_event[2] = "transit"
            THEN RowLoopKeepsOpenPass(pass_list, i + 1,
                     [pass_info EXCEPT ![2] = pass_event[1]], transit_list)
            ELSE IF pass_event[2] = "set"
            THEN RowLoopKeepsOpenPass(pass_list, i + 1, <<0, 0, 0, pass_info[4]>>,
                         Append(transit_list, [pass_info EXCEPT ![3] = pass_event[1]]))
            ELSE RowLoopKeepsOpenPass(pass_list, i + 1, pass_info, transit_list)

\* the loop that fills [rise, transit, set, name] from an event list
RECURSIVE RowLoop(_, _, _, _)
RowLoop(pass_list, i, pass_info, transit_list) ==
    IF i > Len(pass_list) THEN transit_list
    ELSE LET pass_event == pass_list[i]
         IN IF pass_event[2] = "rise"
            THEN RowLoop(pass_list, i + 1, [pass_info EXCEPT ![1] = pass_event[1]],
                         transit_list)
            ELSE IF pass_event[2] = "transit"
            THEN RowLoop(pass_list, i + 1, [pass_info EXCEPT ![2] = pass_event[1]],
                         transit_list)
            ELSE IF pass_event[2] = "set"
            THEN RowLoop(pass_list, i + 1, <<0, 0, 0, pass_info[4]>>,
                         Append(transit_list, [pass_info EXCEPT ![3] = pass_event[1]]))
            ELSE RowLoop(pass_list, i + 1, pass_info, transit_list)

\* transit_list_sorted_by_time: what one satellite adds to transit_list
transit_rows(transit_list, sat, pass_list) ==
    LET rows == RowLoop(pass_list, 1, <<0, 0, 0, sat>>, transit_list)
    IN IF Len(pass_list) = 0 THEN Append(rows, <<0, 0, 0, sat>>) ELSE rows

\* the lines of a text pane for the rows of a listing
RECURSIVE ListingLoop(_)
ListingLoop(transit_list) ==
    IF Len(transit_list) = 0 THEN <<>>
    ELSE LET transit == transit_list[1]
         IN (IF transit[1] # 0 THEN << <<"Rise", transit[1]>> >> ELSE <<>>)
            \o (IF transit[2] # 0 THEN << <<"Transit", transit[2]>> >> ELSE <<>>)
            \o (IF transit[3] # 0 THEN << <<"Set", transit[3]>> >> ELSE <<>>)
            \o << <<"", 0>> >>
            \o ListingLoop(Tail(transit_list))

\* the lines display_upcoming_passes writes for the rows: the satellite of
\* every row before its times
RECURSIVE UpcomingLoop(_)
UpcomingLoop(transit_list) ==
    IF Len(transit_list) = 0 THEN <<>>
    ELSE LET transit == transit_list[1]
         IN << <<"Pass for satellite", transit[4]>> >>
            \o (IF transit[1] # 0 THEN << <<"Rise", transit[1]>> >> ELSE <<>>)
            \o (IF transit[2] # 0 THEN << <<"Transit", transit[2]>> >> ELSE <<>>)
            \o (IF transit[3] # 0 THEN << <<"Set", transit[3]>> >> ELSE <<>>)
            \o << <<"", 0>> >>
            \o UpcomingLoop(Tail(transit_list))

\* -------------------------------------------------- the handlers' call record

NoCall ==
    [handler |-> "none", satellite |-> None, number_of_passes |-> 0, found |-> <<>>,
     searched |-> FALSE, caught |-> FALSE, raised |-> "none", event_list |-> <<>>,
     pass_list |-> <<>>, inserted |-> FALSE, below |-> {}, short |-> {},
     transit_list |-> <<>>,
     listing |-> <<>>, outcome |-> "none"]

\* the record of a handler after its get_next_passes call r
Called(handler, satellite_name, number_of_passes, found, r) ==
    [NoCall EXCEPT !.handler = handler, !.satellite = satellite_name,
                   !.number_of_passes = number_of_passes,
                   !.found = IF r.searched THEN found ELSE <<>>,
                   !.searched = r.searched, !.caught = r.caught,
                   !.raised = r.raised, !.event_list = r.event_list,
                   !.pass_list = r.event_list,
                   !.outcome = IF r.raised # "none" THEN "raised" ELSE "returned"]

\* ------------------------------------- draw_next_passes_for_selected_satellite

\* the times at which the line from rise_ts has its seconds read short
ShortOf(short, rise_ts) == { x[2] : x \in { y \in short : y[1] = rise_ts } }

\* the loop with a line made at the transit as well
RECURSIVE DrawLoopAtTransit(_, _, _, _, _, _, _, _)
DrawLoopAtTransit(pass_list, i, rise_ts, p, ls, polar, below, short) ==
    IF i > Len(pass_list) THEN [lines |-> ls, next_pass_polar_lines |-> polar]
    ELSE LET pass_event == pass_list[i]
         IN IF pass_event[2] = "rise"
            THEN DrawLoopAtTransit(pass_list, i + 1, pass_event[1], p, ls, polar, below,
                          short)
            ELSE IF pass_event[2] \in {"transit", "set"}
            THEN LET set_ts == pass_event[1]
                 IN DrawLoopAtTransit(pass_list, i + 1, rise_ts, p + 1,
                        IF p = 0
                        THEN Append(ls, create_pass_line(rise_ts, set_ts, DrawInterval,
                                            plot_colours[1], DrawTextEvery,
                                            <<rise_ts, set_ts>> \in below,
                                            ShortOf(short, rise_ts)))
                        ELSE ls,
                        Append(polar,
                               create_pass_line(rise_ts, set_ts, DrawInterval,
                                   plot_colours[(p % Len(plot_colours)) + 1],
                                   DrawTextEvery, <<rise_ts, set_ts>> \in below,
                                   ShortOf(short, rise_ts))),
                        below, short)
            ELSE DrawLoopAtTransit(pass_list, i + 1, rise_ts, p, ls, polar, below, short)

RECURSIVE DrawLoop(_, _, _, _, _, _, _, _)
DrawLoop(pass_list, i, rise_ts, p, ls, polar, below, short) ==
    IF i > Len(pass_list) THEN [lines |-> ls, next_pass_polar_lines |-> polar]
    ELSE LET pass_event == pass_list[i]
         IN IF pass_event[2] = "rise"
            THEN DrawLoop(pass_list, i + 1, pass_event[1], p, ls, polar, below,
                          short)
            ELSE IF pass_event[2] = "set"
            THEN LET set_ts == pass_event[1]
                 IN DrawLoop(pass_list, i + 1, rise_ts, p + 1,
                        IF p = 0
                        THEN Append(ls, create_pass_line(rise_ts, set_ts, DrawInterval,
                                            plot_colours[1], DrawTextEvery,
                                            <<rise_ts, set_ts>> \in below,
                                            ShortOf(short, rise_ts)))
                        ELSE ls,
                        Append(polar,
                               create_pass_line(rise_ts, set_ts, DrawInterval,
                                   plot_colours[(p % Len(plot_colours)) + 1],
                                   DrawTextEvery, <<rise_ts, set_ts>> \in below,
                                   ShortOf(short, rise_ts))),
                        below, short)
            ELSE DrawLoop(pass_list, i + 1, rise_ts, p, ls, polar, below, short)

\* the handler with the rise at `now` inserted before every event list
draw_next_passes_always_inserts(sats, keys, satellite_name, number_of_passes, found, now2, below, short, old_lines, old_polar) ==
    IF satellite_name = None
    THEN [call |-> [NoCall EXCEPT !.handler = "draw_next_passes", !.outcome = "returned"],
          lines |-> old_lines, next_pass_polar_lines |-> old_polar]
    ELSE LET r == get_next_passes(sats, keys, satellite_name, number_of_passes, found)
             c == Called("draw_next_passes", satellite_name, number_of_passes, found, r)
         IN IF r.raised # "none" \/ Len(r.event_list) = 0
            THEN [call |-> c, lines |-> old_lines, next_pass_polar_lines |-> old_polar]
            ELSE LET pass_list == << <<now2, "rise">> >> \o r.event_list
                     d == DrawLoop(pass_list, 1, None, 0, <<>>, <<>>, below, short)
                 IN [call |-> [c EXCEPT !.pass_list = pass_list, !.inserted = TRUE,
                                        !.below = below, !.short = short,
                                        !.outcome = "drawn"],
                     lines |-> d.lines,
                     next_pass_polar_lines |-> d.next_pass_polar_lines]

\* now2: the clock at the second ts.now(); below: the <<rise, set>> whose line
\* has a sum rounded below the set time; short: the <<rise, time>> of the points
\* whose calendar seconds are read short.  Returns the call record and the
\* new values of self.lines and self.next_pass_polar_lines.
draw_next_passes_for_selected_satellite(sats, keys, satellite_name, number_of_passes, found, now2, below, short, old_lines, old_polar) ==
    IF satellite_name = None
    THEN [call |-> [NoCall EXCEPT !.handler = "draw_next_passes", !.outcome = "returned"],
          lines |-> old_lines, next_pass_polar_lines |-> old_polar]
    ELSE LET r == get_next_passes(sats, keys, satellite_name, number_of_passes, found)
             c == Called("draw_next_passes", satellite_name, number_of_passes, found, r)
         IN IF r.raised # "none" \/ Len(r.event_list) = 0
            THEN [call |-> c, lines |-> old_lines, next_pass_polar_lines |-> old_polar]
            ELSE LET insert == r.event_list[1][2] # "rise"
                     pass_list == IF insert
                                  THEN << <<now2, "rise">> >> \o r.event_list
                                  ELSE r.event_list
                     d == DrawLoop(pass_list, 1, None, 0, <<>>, <<>>, below, short)
                 IN [call |-> [c EXCEPT !.pass_list = pass_list, !.inserted = insert,
                                        !.below = below, !.short = short,
                                        !.outcome = "drawn"],
                     lines |-> d.lines,
                     next_pass_polar_lines |-> d.next_pass_polar_lines]

\* ---------------------------------- display_next_passes_for_selected_satellite

display_next_passes_for_selected_satellite(sats, keys, satellite_name, found) ==
    IF satellite_name = None
    THEN [NoCall EXCEPT !.handler = "display_next_passes", !.outcome = "returned"]
    ELSE LET r == get_next_passes(sats, keys, satellite_name, ListingPasses, found)
             c == Called("display_next_passes", satellite_name, ListingPasses, found, r)
             transit_list ==
                 SortRows(RowLoop(r.event_list, 1, <<0, 0, 0, satellite_name>>, <<>>))
         IN IF r.raised # "none" THEN c
            ELSE [c EXCEPT !.transit_list = transit_list,
                           !.listing = ListingLoop(transit_list),
                           !.outcome = "listed"]

\* ------------------------------------------------- the arithmetic of floats

\* A float of the program is modelled by the real number it stands for, an
\* exact fraction [num, den] in lowest terms with den > 0.  The double the
\* program holds is that number rounded once by every operation that made
\* it; where the outcome of the program depends on the rounding (a sum
\* compared with the set time, the seconds of a calendar time, a number
\* written without decimals), the rounding is an input of the operation.
Abs(n) == IF n < 0 THEN -n ELSE n

RECURSIVE GCD(_, _)
GCD(a, b) == IF b = 0 THEN a ELSE GCD(b, a % b)

\* n / d
Frac(n, d) ==
    LET g == GCD(Abs(n), Abs(d))
        s == IF d < 0 THEN -1 ELSE 1
    IN [num |-> s * (n \div g), den |-> s * (d \div g)]

\* -a
RatNeg(a) == [num |-> -a.num, den |-> a.den]

\* a * b, reduced before the products are taken
RatMul(a, b) ==
    LET x == Frac(a.num, b.den)
        y == Frac(b.num, a.den)
    IN [num |-> x.num * y.num, den |-> x.den * y.den]

\* a / n for an integer n # 0
RatDiv(a, n) == RatMul(a, Frac(1, n))

Sign(a) == IF a.num > 0 THEN 1 ELSE IF a.num < 0 THEN -1 ELSE 0

\* A double below 2^31 that a conversion and four rounded operations made
\* lies within 1 / TieWindow of the real number it stands for.
TieWindow == 100000

\* the real number a is within 1 / TieWindow of the middle of two integers:
\* on which side of the middle the double lies is decided by the roundings
NearTie(a) ==
    LET q == a.num \div a.den
        r == a.num - q * a.den
    IN Abs(2 * r - a.den) <= (2 * a.den - 1) \div TieWindow

\* the integer ':+0.0f' writes for the double that stands for a.  `above`:
\* the double lies above the middle of two integers, or on it with an odd
\* integer below (round half to even); it is read near a middle only
FormatHz(a, above) ==
    LET q == a.num \div a.den
        r == a.num - q * a.den
    IN IF NearTie(a) THEN (IF above THEN q + 1 ELSE q)
       ELSE IF 2 * r < a.den THEN q
       ELSE q + 1

\* --------------------------------------------------------- get_alt_azimuth

\* np.dot(a, b)
Dot(a, b) == a[1] * b[1] + a[2] * b[2] + a[3] * b[3]

NormSq(a) == Dot(a, a)

\* np.linalg.norm(a), for the vectors of Positions
Norm(a) == CHOOSE n \in 0..(2 * PosMax) : n * n = NormSq(a)

\* topocentric.position.km: the observer-to-satellite vectors of the model,
\* those of whole length; a satellite is never at the observer
Positions ==
    { p \in (-PosMax..PosMax) \X (-PosMax..PosMax) \X (-PosMax..PosMax) :
        /\ p # <<0, 0, 0>>
        /\ \E n \in 1..(2 * PosMax) : n * n = NormSq(p) }

\* topocentric.velocity.km_per_s
Velocities == (-VelMax..VelMax) \X (-VelMax..VelMax) \X (-VelMax..VelMax)

\* alt.degrees
Altitudes == { -MaxAlt, 0, MaxAlt }

\* what skyfield returns for difference.at(t) when it is not asked
NoTopocentric == [alt |-> 0, az |-> 0, pos |-> <<0, 0, 1>>, velocity |-> <<0, 0, 0>>]

\* what skyfield may return for difference.at(t)
Topocentrics ==
    { [alt |-> a, az |-> 0, pos |-> p, velocity |-> v] :
        a \in Altitudes, p \in Positions, v \in Velocities }

\* the projection taken on the satellite-to-observer vector
SlantVelocityTowardsObserver(pos, velocity) ==
    Frac(Dot(velocity, <<-pos[1], -pos[2], -pos[3]>>), Norm(pos))

\* d = np.dot(velocity, pos) / np.linalg.norm(pos)
SlantVelocity(pos, velocity) == Frac(Dot(velocity, pos), Norm(pos))

\* get_alt_azimuth(calc_time, satellite_name), topocentric being what skyfield
\* returns for the satellite at calc_time
get_alt_azimuth(sats, keys, satellite_name, topocentric) ==
    LET found == LookUp(sats, keys, satellite_name)
    IN CASE found = "KeyError" ->
              [raised |-> "KeyError", computed |-> FALSE, alt |-> 0, az |-> 0,
               d |-> Frac(0, 1)]
         [] found = "ValueError" ->
              [raised |-> "none", computed |-> FALSE, alt |-> 0, az |-> 0,
               d |-> Frac(0, 1)]
         [] OTHER ->
              [raised |-> "none", computed |-> TRUE, alt |-> topocentric.alt,
               az |-> topocentric.az,
               d |-> SlantVelocity(topocentric.pos, topocentric.velocity)]

\* ---------------------------------------- the loop of on_auto_update_timer

\* selected_frequencies.currentText(): a frequency in MHz, '' when the box is
\* empty
FrequencyTexts ==
    { <<"1", "4", "5", ".", "9">>, <<"3", ".", "1", "5">>, <<"0">>, <<>> }

\* -slant_velocity / 300000 * frequency: the real number.  The program
\* negates, divides and multiplies in doubles, each operation rounding its
\* result (float(...) * 1e6 adds a conversion and a product), so the double
\* it holds has the sign of this number and lies within a few units in the
\* last place of it; the roundings are read where the double is written
\* (FormatHz).
DopplerShift(slant_velocity, frequency) ==
    RatMul(RatDiv(RatNeg(slant_velocity), SpeedOfLight), frequency)

\* float(currentText) * 1e6, in Hz
SelectedFrequency(currentText) ==
    Frac(StrToFloat(currentText)[1] * 1000000, StrToFloat(currentText)[2])

\* the shifts of the loop body that are written without decimals and lie near
\* the middle of two integers
NearTies(d, currentText) ==
    { name \in {"2m", "70cm", "selected"} :
        CASE name = "2m" -> NearTie(DopplerShift(d, Frac(145900000, 1)))
          [] name = "70cm" -> NearTie(DopplerShift(d, Frac(436500000, 1)))
          [] OTHER -> /\ FloatKind(currentText) = "finite"
                      /\ NearTie(DopplerShift(d, SelectedFrequency(currentText))) }

NoDoppler ==
    [raised |-> "none", up_positions |-> <<>>, computed |-> FALSE,
     doppler_shift_2m |-> Frac(0, 1), doppler_shift_100 |-> Frac(0, 1),
     doppler_shift_70cm |-> Frac(0, 1), selected_doppler_shift |-> Frac(0, 1),
     frequency |-> Frac(0, 1), doppler |-> NoText, nonfinite |-> "none"]

\* The body of the loop over the filtered satellites, after get_alt_azimuth
\* has returned r for sat.  above: the written shifts whose double lies above
\* the middle it is near.
up_loop_body(sat, selected, r, currentText, above) ==
    LET grey == [alt |-> r.alt, az |-> r.az, colour |-> "grey", size |-> 8,
                 text |-> <<sat>>]
        two == DopplerShift(r.d, Frac(145900000, 1))
        hundred == DopplerShift(r.d, Frac(100000000, 1))
        seventy == DopplerShift(r.d, Frac(436500000, 1))
        frequency == SelectedFrequency(currentText)
        kind == FloatKind(currentText)
        \* -d / 300000 * inf and -d / 300000 * nan, as ':+0.0f' writes them
        written == IF kind = "nan" \/ r.d.num = 0 THEN "+nan"
                   ELSE IF (r.d.num > 0) = IsNegative(Strip(currentText)) THEN "+inf"
                   ELSE "-inf"
        shift == DopplerShift(r.d, frequency)
        black == [alt |-> r.alt, az |-> r.az, colour |-> "black", size |-> 8,
                  text |-> <<sat, FormatHz(two, "2m" \in above),
                             FormatHz(seventy, "70cm" \in above)>>]
    IN IF r.alt <= 0 THEN NoDoppler
       ELSE IF sat # selected THEN [NoDoppler EXCEPT !.up_positions = <<grey>>]
       ELSE IF kind = "ValueError"
            THEN [NoDoppler EXCEPT !.raised = "ValueError",
                                   !.up_positions = <<grey>>,
                                   !.doppler_shift_2m = two,
                                   !.doppler_shift_100 = hundred,
                                   !.doppler_shift_70cm = seventy]
       ELSE IF kind # "finite"
            THEN [NoDoppler EXCEPT !.up_positions = <<grey, black>>,
                                   !.doppler_shift_2m = two,
                                   !.doppler_shift_100 = hundred,
                                   !.doppler_shift_70cm = seventy,
                                   !.nonfinite = written]
       ELSE [NoDoppler EXCEPT !.up_positions = <<grey, black>>,
                              !.computed = TRUE,
                              !.doppler_shift_2m = two,
                              !.doppler_shift_100 = hundred,
                              !.doppler_shift_70cm = seventy,
                              !.selected_doppler_shift = shift,
                              !.frequency = frequency,
                              !.doppler = <<FormatHz(shift, "selected" \in above), "Hz">>]

\* ----------------------------------------------------- draw_upcoming_passes

\* one line of next_pass_lines: from the rise to the set of the row, in hours
\* from now, at the altitude get_alt_azimuth returned; the second point
\* carries the name
UpcomingLine(transit, now, alt) ==
    << [x |-> Frac(transit[1] - now, 3600), y |-> alt, colour |-> "purple",
        size |-> 6, text |-> NoText],
       [x |-> Frac(transit[3] - now, 3600), y |-> alt, colour |-> "purple",
        size |-> 6, text |-> <<transit[4]>>] >>

\* `for transit in transit_list` of draw_upcoming_passes, the times in seconds:
\* now is written into the rise slot that is empty, the altitude is that of
\* the transit (of now when the row has no transit), and the row is drawn
\* when its set is less than hours_to_show away.  alts[i]: the altitude
\* skyfield gives for row i.
RECURSIVE UpcomingLinesLoop(_, _, _, _, _, _, _, _)
UpcomingLinesLoop(sats, keys, transit_list, i, now, alts, rows, next_pass_lines) ==
    IF i > Len(transit_list)
    THEN [raised |-> "none", transit_list |-> rows, next_pass_lines |-> next_pass_lines]
    ELSE LET transit == IF transit_list[i][1] = 0
                        THEN [transit_list[i] EXCEPT ![1] = now]
                        ELSE transit_list[i]
             r == get_alt_azimuth(sats, keys, transit[4],
                                  [NoTopocentric EXCEPT !.alt = alts[i]])
         IN IF r.raised # "none"
            THEN [raised |-> r.raised,
                  transit_list |-> rows \o <<transit>>
                                   \o SubSeq(transit_list, i + 1, Len(transit_list)),
                  next_pass_lines |-> next_pass_lines]
            ELSE UpcomingLinesLoop(sats, keys, transit_list, i + 1, now, alts,
                     Append(rows, transit),
                     IF (transit[3] - now) * 24 < hours_to_show * 86400
                     THEN Append(next_pass_lines, UpcomingLine(transit, now, r.alt))
                     ELSE next_pass_lines)

\* draw_upcoming_passes from the list transit_list_sorted_by_time returned.
\* transit_list: the rows as the loop leaves them
draw_upcoming_passes(sats, keys, transit_list, now, alts) ==
    UpcomingLinesLoop(sats, keys, transit_list, 1, now, alts, <<>>, <<>>)

\* ---------------------------------------------------------------- the model

\* The record of the handler that runs transit_list_sorted_by_time.  caller:
\* display_upcoming_passes (the button) or draw_upcoming_passes (the timer);
\* names, idx: the loop over the filtered satellites; sorted: transit_list as
\* transit_list_sorted_by_time returned it; transit_list: the list as it is
\* now; now: the clock draw_upcoming_passes read; next_pass_lines,
\* up_positions, dynamic_lines, doppler: what the timer's handler has made.
NoBatch ==
    [pc |-> "off", caller |-> "none", names |-> <<>>, idx |-> 0,
     transit_list |-> <<>>, sorted |-> <<>>, listing |-> <<>>, now |-> 0,
     next_pass_lines |-> <<>>, up_positions |-> <<>>, dynamic_lines |-> <<>>,
     doppler |-> NoText]

IdleBatch == [NoBatch EXCEPT !.pc = "idle"]

NoTimer == [pc |-> "off"]

NoFn == [op |-> "none"]

\* what find_events may return to a handler
HandlerFound == FoundLists(NowBase, MaxTick, MaxEvents)

\* what find_events may return to one turn of transit_list_sorted_by_time
BatchFound == FoundLists(NowBase, BatchMaxTick, BatchMaxEvents)

\* auto_update_timer.start(1 * 1000) and clock_update_timer.start(1000)
StartedTimer == [pc |-> "started"]

\* the instants of the events find_events reports during a tick of the timer:
\* now, and hours_to_show later
TimerTimes == { NowBase, NowBase + hours_to_show * 3600 }

\* what find_events may return to one turn of transit_list_sorted_by_time
\* when draw_upcoming_passes has called it
TimerFound ==
    { EventsAt(T, first) :
        T \in { U \in SUBSET TimerTimes : Cardinality(U) <= TimerMaxEvents },
        first \in 0..2 }

\* alt.degrees of a row of draw_upcoming_passes
TimerAltitudes == { MaxAlt }

\* what skyfield may return to get_alt_azimuth during a tick of the timer: a
\* satellite above the horizon that approaches, one below the horizon
TimerTopocentrics ==
    { [alt |-> MaxAlt, az |-> 0, pos |-> <<0, 0, 1>>, velocity |-> <<0, 0, -1>>],
      [alt |-> -MaxAlt, az |-> 0, pos |-> <<0, 0, 1>>, velocity |-> <<0, 0, 0>>] }

\* what skyfield returns for a satellite that is not the selected one
TimerOthers == { t \in TimerTopocentrics : t.alt > 0 }

\* selected_frequencies.currentText() during a tick of the timer
TimerTexts == { <<"1", "4", "5", ".", "9">>, <<>> }

\* the clock readings of the second ts.now() of
\* draw_next_passes_for_selected_satellite, which is reached only when the
\* first event returned is not a 'rise'
SecondNow(sats, keys, satellite_name, number_of_passes, found) ==
    LET r == get_next_passes(sats, keys, satellite_name, number_of_passes, found)
    IN IF satellite_name # None /\ Len(r.event_list) > 0 /\ r.event_list[1][2] # "rise"
       THEN NowBase..(NowBase + MaxSkew)
       ELSE {NowBase}

\* the <<rise, set>> of the lines the handler can make whose set time is a
\* whole number of steps after the rise: the float sum that reaches it may be
\* rounded below setting_time.tt
WholeSteps(found, now2) ==
    LET times == { found[i][1] : i \in 1..Len(found) }
    IN { p \in (times \cup {now2}) \X times :
           p[1] < p[2] /\ (p[2] - p[1]) % DrawInterval = 0 }

\* the <<rise, time>> of the points the handler can make on a whole minute:
\* the calendar seconds of such a point may be read short of the minute
WholeMinutes(found, now2) ==
    LET times == { found[i][1] : i \in 1..Len(found) }
    IN UNION { { <<p[1], 60 * m>> :
                   m \in { k \in (p[1] \div 60)..(p[2] \div 60) :
                             /\ 60 * k >= p[1]
                             /\ (60 * k - p[1]) % DrawInterval = 0 } } :
               p \in (times \cup {now2}) \X times }

\* what one run of draw_next_passes_for_selected_satellite reads from outside:
\* the events find_events returns, the clock and the rounding of the sums and
\* of the seconds
Finds(F, sats, keys, satellite_name, number_of_passes) ==
    UNION { UNION { { [found |-> found, now2 |-> now2, below |-> below,
                       short |-> short] :
                        below \in SUBSET WholeSteps(found, now2),
                        short \in SUBSET WholeMinutes(found, now2) } :
                    now2 \in SecondNow(sats, keys, satellite_name, number_of_passes,
                                       found) } :
            found \in F }

\* on_comboBoxSelectSatelllite_currentIndexChanged as the combo box signals it
\* while fill_select_satellite_combo fills it: clear() signals index -1 when the
\* box held items (the handler returns at `satellite_name is None`), the first
\* addItem signals index 0, and draw_next_passes_for_selected_satellite runs
\* for the first item; an empty list leaves index -1 and the lines as they are
currentIndexChanged(sats, keys, cb, number_of_passes, find, old_lines, old_polar) ==
    draw_next_passes_for_selected_satellite(
        sats, keys, FirstItem(fill_select_satellite_combo(sats, cb)), number_of_passes,
        find.found, find.now2, find.below, find.short, old_lines, old_polar)

\* the modes of the data set as list.sort() orders them
ModeOrder == <<"FM", "SSB">>

RECURSIVE ModesLoop(_, _)
ModesLoop(sats, cb) ==
    IF Len(sats) = 0 THEN {}
    ELSE LET s == sats[1]
             hasTransponder == cb.Transponder /\ s.TransponderUplink
             hasUplink == cb.Uplink /\ s.Uplinks
             hasDownlink == cb.Downlink /\ s.Downlinks
             hasBeacon == cb.Beacon /\ s.Beacons
         IN (IF hasTransponder \/ hasUplink \/ hasDownlink \/ hasBeacon
             THEN s.Modes ELSE {})
            \cup ModesLoop(Tail(sats), cb)

\* the items of comboBoxMode after fill_combo_box_with_list_of_modes; item 0,
\* 'Any', is the current one.  comboBoxMode.clear() signals index -1 to
\* on_comboBoxMode_currentIndexChanged, which empties comboBoxSelectSatelllite
\* (no satellite lists the mode ''), and addItem('Any') signals index 0, which
\* fills it again for the mode 'Any'.
fill_combo_box_with_list_of_modes(sats, cb) ==
    <<"Any">> \o SelectSeq(ModeOrder, LAMBDA m : m \in ModesLoop(sats, cb))

\* set_up_satellite_data(): the two files are loaded and merged,
\* fill_combo_box_with_list_of_modes() makes 'Any' the mode and has
\* comboBoxSelectSatelllite filled (finds[1] is read by the run of the draw
\* handler it signals), fill_select_satellite_combo() fills it once more
\* (finds[2]), and the two timers are started
set_up_satellite_data(data, objs, cb, number_of_passes, finds, old_lines, old_polar) ==
    LET sats == MergeLoop(data, Satnums(objs))
        keys == DOMAIN ByNumber(objs)
        any == [cb EXCEPT !.Mode = "Any"]
        first == currentIndexChanged(sats, keys, any, number_of_passes, finds[1],
                                     old_lines, old_polar)
        second == currentIndexChanged(sats, keys, any, number_of_passes, finds[2],
                                      first.lines, first.next_pass_polar_lines)
    IN [satellite_body_objects |-> objs, by_number |-> ByNumber(objs),
        satellite_data |-> data, satellites |-> sats, checks |-> any,
        selected_satellite |-> FirstItem(fill_select_satellite_combo(sats, any)),
        call |-> second.call, lines |-> second.lines,
        next_pass_polar_lines |-> second.next_pass_polar_lines,
        timer |-> StartedTimer]

\* the inputs of the two runs of the draw handler in set_up_satellite_data.
\* A second run that draws replaces every line of the first, and a run that
\* returns without drawing changes nothing: the inputs of the first run are
\* varied only where the second run returns without drawing, and there over
\* the inputs that make the first run draw.
SetUpFinds(F, data, objs, cb, number_of_passes) ==
    LET sats == MergeLoop(data, Satnums(objs))
        keys == DOMAIN ByNumber(objs)
        name == FirstItem(fill_select_satellite_combo(sats, [cb EXCEPT !.Mode = "Any"]))
        one == Finds(F, sats, keys, name, number_of_passes)
        Draws(g) ==
            LET r == get_next_passes(sats, keys, name, number_of_passes, g.found)
            IN name # None /\ r.raised = "none" /\ Len(r.event_list) > 0
    IN UNION { IF Draws(g) THEN { <<g, g>> }
               ELSE { <<f, g>> : f \in { h \in one : Draws(h) } \cup {g} } :
               g \in one }

\* what find_events returns to the draw handler where the handlers are not the
\* subject; with spinBoxNextPasses at 0 get_next_passes keeps none of it
StartFound == FoundLists(NowBase, 0, 1)

\* The state after MainApp.__init__: the class attributes lines and
\* next_pass_polar_lines are [], the check boxes and spinBoxNextPasses (at most
\* N) are as SkyHamSat.ui has them, and set_up_satellite_data() has run, its
\* draw handler being given event lists of F.
MainApp(F, N) ==
    \E data \in Databases, file \in TleFiles, cb \in CheckBoxStates, n \in 0..N :
       \E finds \in SetUpFinds(F, data, ElementSets(file, 0), cb, n) :
          \E up \in { set_up_satellite_data(data, ElementSets(file, 0), cb, n, finds,
                                             <<>>, <<>>) } :
             /\ satellite_data = up.satellite_data
             /\ satellite_body_objects = up.satellite_body_objects
             /\ by_number = up.by_number
             /\ settings = NoSettings
             /\ home = DefaultHome
             /\ satellites = up.satellites
             /\ checks = up.checks
             /\ spinBoxNextPasses = n
             /\ selected_satellite = up.selected_satellite
             /\ lines = up.lines
             /\ next_pass_polar_lines = up.next_pass_polar_lines
             /\ call = NoCall
             /\ timer = up.timer
             /\ fn = NoFn

\* Qt waits for the user: no handler runs, the upcoming passes are not listed
Init == MainApp(HandlerFound, MaxN) /\ batch = IdleBatch

\* on_comboBoxSelectSatelllite_currentIndexChanged: the user picks item i
on_comboBoxSelectSatelllite_currentIndexChanged ==
    /\ batch.pc = "idle" /\ call.handler = "none"
    /\ \E i \in 1..Len(fill_select_satellite_combo(satellites, checks)),
          found \in HandlerFound :
          \E now2 \in SecondNow(satellites, DOMAIN by_number,
                                fill_select_satellite_combo(satellites, checks)[i],
                                spinBoxNextPasses, found) :
          \E below \in SUBSET WholeSteps(found, now2),
             short \in SUBSET WholeMinutes(found, now2) :
          \E d \in { draw_next_passes_for_selected_satellite(
                         satellites, DOMAIN by_number,
                         fill_select_satellite_combo(satellites, checks)[i],
                         spinBoxNextPasses, found, now2, below, short, lines,
                         next_pass_polar_lines) } :
             /\ selected_satellite' = fill_select_satellite_combo(satellites, checks)[i]
             /\ call' = d.call
             /\ lines' = d.lines
             /\ next_pass_polar_lines' = d.next_pass_polar_lines
    /\ UNCHANGED <<config, spinBoxNextPasses, batch, timer, fn>>

\* on_spinBoxNextPasses_valueChanged(value)
on_spinBoxNextPasses_valueChanged ==
    /\ batch.pc = "idle" /\ call.handler = "none"
    /\ \E value \in (0..MaxN) \ {spinBoxNextPasses}, found \in HandlerFound :
          \E now2 \in SecondNow(satellites, DOMAIN by_number, selected_satellite, value,
                                found) :
          \E below \in SUBSET WholeSteps(found, now2),
             short \in SUBSET WholeMinutes(found, now2) :
          \E d \in { draw_next_passes_for_selected_satellite(
                         satellites, DOMAIN by_number, selected_satellite, value,
                         found, now2, below, short, lines,
                         next_pass_polar_lines) } :
             /\ spinBoxNextPasses' = value
             /\ call' = d.call
             /\ lines' = d.lines
             /\ next_pass_polar_lines' = d.next_pass_polar_lines
    /\ UNCHANGED <<config, selected_satellite, batch, timer, fn>>

\* on_pushButtonPlotPass_clicked: the listing of the selected satellite
on_pushButtonPlotPass_clicked ==
    /\ batch.pc = "idle" /\ call.handler = "none"
    /\ \E found \in HandlerFound :
          call' = display_next_passes_for_selected_satellite(
                      satellites, DOMAIN by_number, selected_satellite, found)
    /\ UNCHANGED <<config, spinBoxNextPasses, selected_satellite, drawn, batch,
                   timer, fn>>

\* the handler is left (by its return or by the exception) and Qt waits again
HandlerReturns ==
    /\ batch.pc = "idle" /\ call.handler # "none"
    /\ call' = NoCall
    /\ UNCHANGED <<config, spinBoxNextPasses, selected_satellite, drawn, batch,
                   timer, fn>>

\* on_pushButtonNextPasses_clicked: display_upcoming_passes enters
\* transit_list_sorted_by_time
on_pushButtonNextPasses_clicked ==
    /\ batch.pc = "idle" /\ call.handler = "none"
    /\ batch' = [IdleBatch EXCEPT
                    !.pc = "loop", !.caller = "display_upcoming_passes", !.idx = 1,
                    !.names = SelectNames(
                                  satellites_filtered_by_check_boxes(satellites, checks))]
    /\ call' = NoCall
    /\ UNCHANGED <<config, spinBoxNextPasses, selected_satellite, drawn, timer, fn>>

\* transit_list_sorted_by_time: one turn of `for v in ...filtered...`, with
\* find_events returning a list of F
transit_list_sorted_by_time(F) ==
    /\ batch.pc = "loop" /\ batch.idx <= Len(batch.names)
    /\ \E found \in F :
       \E r \in { get_next_passes(satellites, DOMAIN by_number, batch.names[batch.idx],
                                  spinBoxNextPasses, found) } :
          LET sat == batch.names[batch.idx]
              c == Called("transit_list_sorted_by_time", sat, spinBoxNextPasses,
                          found, r)
          IN IF r.raised # "none"
             THEN /\ call' = c
                  /\ batch' = [batch EXCEPT !.pc = "aborted"]
             ELSE /\ call' = [c EXCEPT !.transit_list =
                                  transit_rows(<<>>, sat, r.event_list)]
                  /\ batch' = [batch EXCEPT
                                  !.idx = @ + 1,
                                  !.transit_list = transit_rows(@, sat, r.event_list)]
    /\ UNCHANGED <<config, spinBoxNextPasses, selected_satellite, drawn, timer, fn>>

transit_list_loop ==
    /\ batch.caller = "display_upcoming_passes"
    /\ transit_list_sorted_by_time(BatchFound)

\* transit_list.sort(), return, and the listing of display_upcoming_passes
transit_list_sorted ==
    /\ batch.pc = "loop" /\ batch.idx > Len(batch.names)
    /\ batch.caller = "display_upcoming_passes"
    /\ batch' = [batch EXCEPT !.pc = "done",
                              !.transit_list = SortRows(@),
                              !.sorted = SortRows(batch.transit_list),
                              !.listing = UpcomingLoop(SortRows(batch.transit_list))]
    /\ call' = NoCall
    /\ UNCHANGED <<config, spinBoxNextPasses, selected_satellite, drawn, timer, fn>>

\* the handler is left (by its return or by the exception) and Qt waits again
BatchReturns ==
    /\ batch.pc \in {"done", "aborted"}
    /\ batch' = IdleBatch
    /\ call' = NoCall
    /\ fn' = NoFn
    /\ UNCHANGED <<config, spinBoxNextPasses, selected_satellite, drawn, timer>>

\* on_auto_update_timer, the timeout of auto_update_timer:
\* draw_upcoming_passes is called first and enters transit_list_sorted_by_time
on_auto_update_timer ==
    /\ batch.pc = "idle" /\ call.handler = "none"
    /\ timer = StartedTimer
    /\ batch' = [IdleBatch EXCEPT
                    !.pc = "loop", !.caller = "draw_upcoming_passes", !.idx = 1,
                    !.names = SelectNames(
                                  satellites_filtered_by_check_boxes(satellites, checks))]
    /\ call' = NoCall
    /\ UNCHANGED <<config, spinBoxNextPasses, selected_satellite, drawn, timer, fn>>

\* draw_upcoming_passes after transit_list_sorted_by_time has returned the
\* sorted list: the loop over the rows, with the altitudes of A and the clock
\* at `now`, MaxSkew after the now of the event searches (the readings of the
\* rows are taken as one), and upcoming_passes_graph.draw(*self.next_pass_lines).
\* on_auto_update_timer then returns when no satellite is selected, and
\* enters its loop over the filtered satellites otherwise.
upcoming_passes_drawn(A) ==
    /\ batch.pc = "loop" /\ batch.idx > Len(batch.names)
    /\ batch.caller = "draw_upcoming_passes"
    /\ \E now \in { NowBase + MaxSkew },
          alts \in [1..Len(batch.transit_list) -> A] :
       \E d \in { draw_upcoming_passes(satellites, DOMAIN by_number,
                                        SortRows(batch.transit_list), now, alts) } :
          batch' = [batch EXCEPT
                       !.pc = IF d.raised # "none" THEN "aborted"
                              ELSE IF selected_satellite = None THEN "done"
                              ELSE "up",
                       !.idx = 1,
                       !.sorted = SortRows(batch.transit_list),
                       !.transit_list = d.transit_list,
                       !.now = now,
                       !.next_pass_lines = d.next_pass_lines]
    /\ call' = NoCall
    /\ UNCHANGED <<config, spinBoxNextPasses, selected_satellite, drawn, timer, fn>>

\* One turn of `for v in self.satellites_filtered_by_check_boxes()` in
\* on_auto_update_timer, up to the return of
\* alt, az, slant_velocity = self.get_alt_azimuth(calc_time, sat),
\* skyfield returning a topocentric of T for the selected satellite and one of
\* O for another.  fn holds the turn: the topocentric is a local of
\* get_alt_azimuth and is gone when the body of the loop has run.
get_alt_azimuth_returns(T, O) ==
    /\ batch.pc = "up" /\ batch.idx <= Len(batch.names)
    /\ IF fn.op = "none" THEN TRUE ELSE fn.pc = "next"
    /\ LET sat == batch.names[batch.idx]
       IN \E topo \in (IF LookUp(satellites, DOMAIN by_number, sat) # "ok"
                        THEN {NoTopocentric}
                        ELSE IF sat = selected_satellite THEN T ELSE O) :
            /\ \E r \in { get_alt_azimuth(satellites, DOMAIN by_number, sat, topo) } :
                  /\ fn' = [op |-> "on_auto_update_timer",
                            pc |-> IF r.raised = "none" THEN "alt" ELSE "raised",
                            satellite |-> sat, topocentric |-> topo,
                            currentText |-> <<>>, above |-> {}, result |-> r,
                            up |-> NoDoppler]
                  /\ batch' = IF r.raised = "none" THEN batch
                              ELSE [batch EXCEPT !.pc = "aborted"]
    /\ UNCHANGED <<config, spinBoxNextPasses, selected_satellite, drawn, call, timer>>

\* the body of the loop reads the frequency box and writes shifts for the
\* selected satellite above the horizon only
BodyTexts(sat, r, Texts) ==
    IF sat = selected_satellite /\ r.alt > 0 THEN Texts ELSE { <<>> }

BodyTies(sat, r, currentText) ==
    IF sat = selected_satellite /\ r.alt > 0 THEN NearTies(r.d, currentText) ELSE {}

\* the rest of the turn: if alt.degrees > 0: ... self.doppler.setText(...),
\* selected_frequencies.currentText() being a text of Texts
up_loop_body_runs(Texts) ==
    /\ batch.pc = "up" /\ fn.op = "on_auto_update_timer" /\ fn.pc = "alt"
    /\ \E text \in BodyTexts(fn.satellite, fn.result, Texts) :
       \E above \in SUBSET BodyTies(fn.satellite, fn.result, text) :
          /\ \E u \in { up_loop_body(fn.satellite, selected_satellite, fn.result,
                                      text, above) } :
                /\ fn' = [fn EXCEPT !.topocentric = NoTopocentric,
                                    !.currentText = text, !.above = above,
                                    !.up = u,
                                    !.pc = IF u.raised = "none" THEN "next" ELSE "raised"]
                /\ batch' = IF u.raised # "none" THEN [batch EXCEPT !.pc = "aborted"]
                            ELSE [batch EXCEPT
                                     !.idx = @ + 1,
                                     !.up_positions = @ \o u.up_positions,
                                     !.doppler = IF u.computed THEN u.doppler
                                                 ELSE IF u.nonfinite # "none"
                                                 THEN <<u.nonfinite, "Hz">>
                                                 ELSE @]
    /\ UNCHANGED <<config, spinBoxNextPasses, selected_satellite, drawn, call, timer>>

\* dynamic_lines of on_auto_update_timer after its last loop: the first line
\* of the selected pass when self.lines holds one, then one line for every
\* position.  (current_pass_graph.draw is called in the loop over the
\* positions, so nothing is drawn when there is none.)
DynamicLines(ls, up_positions) ==
    (IF Len(ls) > 0 THEN <<ls[1]>> ELSE <<>>)
    \o [i \in 1..Len(up_positions) |-> <<up_positions[i]>>]

\* the loop over the filtered satellites is left: the positions are drawn
\* and on_auto_update_timer returns
dynamic_lines_drawn ==
    /\ batch.pc = "up" /\ batch.idx > Len(batch.names)
    /\ batch' = [batch EXCEPT !.pc = "done",
                              !.dynamic_lines = DynamicLines(lines, batch.up_positions)]
    /\ UNCHANGED <<config, spinBoxNextPasses, selected_satellite, drawn, call, timer,
                   fn>>

draw_upcoming_passes_loop ==
    /\ batch.caller = "draw_upcoming_passes"
    /\ transit_list_sorted_by_time(TimerFound)

draw_upcoming_passes_drawn == upcoming_passes_drawn(TimerAltitudes)

on_auto_update_timer_loop == get_alt_azimuth_returns(TimerTopocentrics, TimerOthers)

on_auto_update_timer_body == up_loop_body_runs(TimerTexts)

Next ==
    \/ on_comboBoxSelectSatelllite_currentIndexChanged
    \/ on_spinBoxNextPasses_valueChanged
    \/ on_pushButtonPlotPass_clicked
    \/ HandlerReturns
    \/ on_pushButtonNextPasses_clicked
    \/ transit_list_loop
    \/ transit_list_sorted
    \/ on_auto_update_timer
    \/ draw_upcoming_passes_loop
    \/ draw_upcoming_passes_drawn
    \/ on_auto_update_timer_loop
    \/ on_auto_update_timer_body
    \/ dynamic_lines_drawn
    \/ BatchReturns

Spec == Init /\ [][Next]_vars

\* ------------------------------------ the upcoming passes, taken alone

UpcomingFound == FoundLists(NowBase, UpcomingMaxTick, UpcomingMaxEvents)

InitUpcoming == MainApp(StartFound, MaxN) /\ batch = IdleBatch

display_upcoming_passes_loop == transit_list_sorted_by_time(UpcomingFound)

NextUpcoming ==
    \/ on_pushButtonNextPasses_clicked
    \/ display_upcoming_passes_loop
    \/ transit_list_sorted
    \/ BatchReturns

SpecUpcoming == InitUpcoming /\ [][NextUpcoming]_vars

\* ----------------------------------------- the check boxes and comboBoxMode

\* what find_events may return to the draw handler the combo box signals
ChecksFound == FoundLists(NowBase, ChecksMaxTick, ChecksMaxEvents)

InitChecks == MainApp(ChecksFound, ChecksMaxN) /\ batch = IdleBatch

\* checkBoxTransponder, checkBoxBeacon, checkBoxDownlink, checkBoxUplink
CheckBoxes == {"Transponder", "Beacon", "Downlink", "Uplink"}

\* on_checkboxes_changed, stateChanged of a check box the user has clicked:
\* fill_select_satellite_combo() fills the box for the mode that is set, and
\* fill_combo_box_with_list_of_modes() makes 'Any' the mode, which fills the
\* box again; each filling signals the draw handler for its first item.
\* (editTextChanged of comboBoxMode is connected too; a box that cannot be
\* edited never sends it.)
on_checkboxes_changed ==
    /\ batch.pc = "idle" /\ call.handler = "none"
    /\ \E box \in CheckBoxes, found1 \in ChecksFound, found2 \in ChecksFound :
       \E cb \in { [checks EXCEPT ![box] = ~@] } :
       \E now1 \in SecondNow(satellites, DOMAIN by_number,
                             FirstItem(fill_select_satellite_combo(satellites, cb)),
                             spinBoxNextPasses, found1),
          now2 \in SecondNow(satellites, DOMAIN by_number,
                             FirstItem(fill_select_satellite_combo(
                                           satellites, [cb EXCEPT !.Mode = "Any"])),
                             spinBoxNextPasses, found2) :
       \E below1 \in SUBSET WholeSteps(found1, now1),
          below2 \in SUBSET WholeSteps(found2, now2),
          short1 \in SUBSET WholeMinutes(found1, now1),
          short2 \in SUBSET WholeMinutes(found2, now2) :
       \E first \in { currentIndexChanged(
                          satellites, DOMAIN by_number, cb, spinBoxNextPasses,
                          [found |-> found1, now2 |-> now1, below |-> below1,
                           short |-> short1],
                          lines, next_pass_polar_lines) } :
       \E second \in { currentIndexChanged(
                           satellites, DOMAIN by_number, [cb EXCEPT !.Mode = "Any"],
                           spinBoxNextPasses,
                           [found |-> found2, now2 |-> now2, below |-> below2,
                            short |-> short2],
                           first.lines, first.next_pass_polar_lines) } :
          /\ checks' = [cb EXCEPT !.Mode = "Any"]
          /\ selected_satellite' =
                 FirstItem(fill_select_satellite_combo(satellites, checks'))
          /\ call' = second.call
          /\ lines' = second.lines
          /\ next_pass_polar_lines' = second.next_pass_polar_lines
    /\ UNCHANGED <<satellite_data, satellite_body_objects, by_number, settings, home,
                   satellites, spinBoxNextPasses, batch, timer, fn>>

\* on_comboBoxMode_currentIndexChanged: the user picks another mode of the
\* list and fill_select_satellite_combo() fills the box for it
on_comboBoxMode_currentIndexChanged ==
    /\ batch.pc = "idle" /\ call.handler = "none"
    /\ \E i \in 1..Len(fill_combo_box_with_list_of_modes(satellites, checks)),
          found \in ChecksFound :
       \E cb \in { [checks EXCEPT
                       !.Mode = fill_combo_box_with_list_of_modes(satellites, checks)[i]] } :
       \E now2 \in SecondNow(satellites, DOMAIN by_number,
                             FirstItem(fill_select_satellite_combo(satellites, cb)),
                             spinBoxNextPasses, found) :
       \E below \in SUBSET WholeSteps(found, now2),
          short \in SUBSET WholeMinutes(found, now2) :
       \E d \in { currentIndexChanged(
                      satellites, DOMAIN by_number, cb, spinBoxNextPasses,
                      [found |-> found, now2 |-> now2, below |-> below,
                       short |-> short],
                      lines, next_pass_polar_lines) } :
          /\ cb.Mode # checks.Mode
          /\ checks' = cb
          /\ selected_satellite' = FirstItem(fill_select_satellite_combo(satellites, cb))
          /\ call' = d.call
          /\ lines' = d.lines
          /\ next_pass_polar_lines' = d.next_pass_polar_lines
    /\ UNCHANGED <<satellite_data, satellite_body_objects, by_number, settings, home,
                   satellites, spinBoxNextPasses, batch, timer, fn>>

NextChecks ==
    \/ on_checkboxes_changed
    \/ on_comboBoxMode_currentIndexChanged
    \/ HandlerReturns

SpecChecks == InitChecks /\ [][NextChecks]_vars

\* ------------------------------------------------ get_next_passes taken alone

\* The state after construction, no handler running, and one pending call
\* get_next_passes(satellite, number_of_passes) on a listed satellite.
InitEvents ==
    /\ satellite_data \in Databases
    /\ satellite_body_objects \in { ElementSets(f, 0) : f \in TleFiles }
    /\ by_number = ByNumber(satellite_body_objects)
    /\ settings = NoSettings
    /\ home = DefaultHome
    /\ satellites = MergeLoop(satellite_data, Satnums(satellite_body_objects))
    /\ checks \in CheckBoxStates
    /\ spinBoxNextPasses = 0
    /\ selected_satellite = FirstItem(fill_select_satellite_combo(satellites, checks))
    /\ lines = <<>>
    /\ next_pass_polar_lines = <<>>
    /\ call = NoCall
    /\ batch = NoBatch
    /\ timer = StartedTimer
    /\ \E i \in 1..Len(satellites), n \in 0..FnMaxN,
          found \in FoundLists(NowBase, FnMaxTick, FnMaxEvents)
                     \cup CulminationLists(NowBase, FnMaxTick, FnMaxEvents) :
          fn = [op |-> "get_next_passes", done |-> FALSE,
                satellite |-> satellites[i].Satellite, number_of_passes |-> n,
                found |-> found, result |-> NoCall]

CallGetNextPasses ==
    /\ fn.op = "get_next_passes" /\ ~fn.done
    /\ fn' = [fn EXCEPT !.done = TRUE,
                        !.result = get_next_passes(satellites, DOMAIN by_number, fn.satellite,
                                                   fn.number_of_passes, fn.found)]
    /\ UNCHANGED <<config, spinBoxNextPasses, selected_satellite, drawn, call, batch,
                   timer>>

NextEvents == CallGetNextPasses

SpecEvents == InitEvents /\ [][NextEvents]_vars

\* ----------------------------------------------- create_pass_line taken alone

\* the times of the points of one line that lie on a whole minute, where a
\* text is made: the calendar seconds of such a point may be read short
LineWholeMinutes(rise_time, setting_time, interval, text_every_point) ==
    IF text_every_point = 0 THEN {}
    ELSE { t \in rise_time..setting_time :
             t % 60 = 0 /\ (t - rise_time) % interval = 0 }

\* One pending call create_pass_line(sat, rise_time, setting_time, interval,
\* colour, text_every_point) for a satellite whose look-up succeeds.  The
\* mode set in comboBoxMode is an item of the box: with this database the
\* box holds 'Any' and 'SSB', and the check boxes are all ticked.
InitLine ==
    /\ satellite_data = <<SatAO7>>
    /\ satellite_body_objects = ElementSets(<<7, 25>>, 0)
    /\ by_number = ByNumber(satellite_body_objects)
    /\ settings = NoSettings
    /\ home = DefaultHome
    /\ satellites = MergeLoop(satellite_data, Satnums(satellite_body_objects))
    /\ checks \in { cb \in CheckBoxStates :
                      \E i \in 1..Len(fill_combo_box_with_list_of_modes(satellites, cb)) :
                         fill_combo_box_with_list_of_modes(satellites, cb)[i] = cb.Mode }
    /\ spinBoxNextPasses = 0
    /\ selected_satellite = FirstItem(fill_select_satellite_combo(satellites, checks))
    /\ lines = <<>>
    /\ next_pass_polar_lines = <<>>
    /\ call = NoCall
    /\ batch = NoBatch
    /\ timer = StartedTimer
    /\ \E r \in 0..LineMaxRise, s \in 0..LineMaxSet, interval \in 1..LineMaxInterval,
          every \in 0..LineMaxTextEvery, below \in BOOLEAN :
       \E short \in SUBSET LineWholeMinutes(NowBase + r, NowBase + s, interval, every) :
          \* the rounding is read only where the set time is a whole number of
          \* steps after the rise
          /\ below => s > r /\ (s - r) % interval = 0
          /\ fn = [op |-> "create_pass_line", done |-> FALSE,
                   rise_time |-> NowBase + r, setting_time |-> NowBase + s,
                   interval |-> interval, colour |-> plot_colours[1],
                   text_every_point |-> every, below |-> below, short |-> short,
                   result |-> <<>>]

CallCreatePassLine ==
    /\ fn.op = "create_pass_line" /\ ~fn.done
    /\ fn' = [fn EXCEPT !.done = TRUE,
                        !.result = create_pass_line(fn.rise_time, fn.setting_time,
                                       fn.interval, fn.colour, fn.text_every_point,
                                       fn.below, fn.short)]
    /\ UNCHANGED <<config, spinBoxNextPasses, selected_satellite, drawn, call, batch,
                   timer>>

NextLine == CallCreatePassLine

SpecLine == InitLine /\ [][NextLine]_vars

\* ------------------------------------- on_auto_update_timer, taken alone

\* on_auto_update_timer with every position and velocity of the model for the
\* selected satellite and every text of the frequency box.  The passes are
\* not its subject: spinBoxNextPasses is at 0, find_events returns to
\* draw_upcoming_passes an event list of StartFound, and its rows have the
\* altitude MaxAlt.
InitAltAz == MainApp(StartFound, 0) /\ batch = IdleBatch

UpcomingPassesLoop == transit_list_sorted_by_time(StartFound)

UpcomingPassesDrawn == upcoming_passes_drawn({MaxAlt})

\* alt, az, slant_velocity = self.get_alt_azimuth(calc_time, sat)
CallGetAltAzimuth == get_alt_azimuth_returns(Topocentrics, TimerOthers)

\* if alt.degrees > 0: ... self.doppler.setText(...)
DopplerOfSelected == up_loop_body_runs(FrequencyTexts)

NextAltAz ==
    \/ on_auto_update_timer
    \/ UpcomingPassesLoop
    \/ UpcomingPassesDrawn
    \/ CallGetAltAzimuth
    \/ DopplerOfSelected
    \/ dynamic_lines_drawn
    \/ BatchReturns

SpecAltAz == InitAltAz /\ [][NextAltAz]_vars

\* ------------------------------------------------- the observer's location

\* what QSettings may hold of the observer location at start-up
SettingsFiles ==
    { [mylatitude |-> lat, mylongitude |-> long, myelevation |-> elevation] :
        lat \in {None, "40.0 N"}, long \in {None, "75.0 W"},
        elevation \in {<<>>, <<SettingsElevation>>} }

\* settings.value(key, default, type=str)
Value(stored, default) == IF stored = None THEN default ELSE stored

\* settings.value(key, default, type=float)
FloatValue(stored, default) == IF stored = <<>> THEN default ELSE stored[1]

\* Topos(lat, long, elevation_m=elevation)
Topos(lat, long, elevation) ==
    [latitude |-> lat, longitude |-> long, elevation_m |-> elevation]

\* The module is loaded and MainApp() is about to be constructed: `home` is the
\* module's Topos, nothing is loaded yet.
InitHome ==
    /\ satellite_data = <<>>
    /\ satellite_body_objects = <<>>
    /\ by_number = ByNumber(<<>>)
    /\ settings \in SettingsFiles
    /\ home = DefaultHome
    /\ satellites = <<>>
    /\ checks \in CheckBoxStates
    /\ spinBoxNextPasses = 0
    /\ selected_satellite = None
    /\ lines = <<>>
    /\ next_pass_polar_lines = <<>>
    /\ call = NoCall
    /\ batch = NoBatch
    /\ timer = NoTimer
    /\ fn = [op |-> "__init__", pc |-> "restore", my_latitude |-> "",
             my_longitude |-> "", my_elevation |-> 0, local_home |-> DefaultHome,
             method |-> "none", satellite |-> None, observer |-> DefaultHome]

\* MainApp.__init__: the settings are restored into the three line edits and
\* into a Topos that is bound to the local name `home` of __init__ (the method
\* declares only `global myLocation`), then set_up_satellite_data loads the files.
MainApp_init ==
    /\ fn.op = "__init__" /\ fn.pc = "restore"
    /\ \E data \in Databases, file \in TleFiles :
       \E finds \in SetUpFinds(StartFound, data, ElementSets(file, 0), checks,
                               spinBoxNextPasses) :
       \E up \in { set_up_satellite_data(data, ElementSets(file, 0), checks,
                                          spinBoxNextPasses, finds, lines,
                                          next_pass_polar_lines) } :
          LET lat == Value(settings.mylatitude, "51.38833333333 N")
              long == Value(settings.mylongitude, "0.75416666666 W")
              elevation == FloatValue(settings.myelevation, 100)
          IN /\ fn' = [fn EXCEPT !.pc = "constructed", !.my_latitude = lat,
                                 !.my_longitude = long, !.my_elevation = elevation,
                                 !.local_home = Topos(lat, long, elevation)]
             /\ home' = home
             /\ satellite_data' = up.satellite_data
             /\ satellite_body_objects' = up.satellite_body_objects
             /\ by_number' = up.by_number
             /\ satellites' = up.satellites
             /\ checks' = up.checks
             /\ selected_satellite' = up.selected_satellite
             /\ lines' = up.lines
             /\ next_pass_polar_lines' = up.next_pass_polar_lines
             /\ timer' = up.timer
    /\ UNCHANGED <<settings, spinBoxNextPasses, call, batch>>

\* get_alt_azimuth for a listed satellite: difference = satellite - home
ObserverOfGetAltAzimuth ==
    /\ fn.op = "__init__" /\ fn.pc \in {"constructed", "called"}
    /\ \E i \in 1..Len(satellites) :
          /\ LookUp(satellites, DOMAIN by_number, satellites[i].Satellite) = "ok"
          /\ fn' = [fn EXCEPT !.pc = "called", !.method = "get_alt_azimuth",
                              !.satellite = satellites[i].Satellite,
                              !.observer = home]
    /\ UNCHANGED <<config, spinBoxNextPasses, selected_satellite, drawn, call, batch,
                   timer>>

\* get_next_passes for a listed satellite: satellite.find_events(home, ...)
ObserverOfGetNextPasses ==
    /\ fn.op = "__init__" /\ fn.pc \in {"constructed", "called"}
    /\ \E i \in 1..Len(satellites) :
          /\ LookUp(satellites, DOMAIN by_number, satellites[i].Satellite) = "ok"
          /\ fn' = [fn EXCEPT !.pc = "called", !.method = "get_next_passes",
                              !.satellite = satellites[i].Satellite,
                              !.observer = home]
    /\ UNCHANGED <<config, spinBoxNextPasses, selected_satellite, drawn, call, batch,
                   timer>>

NextHome == MainApp_init \/ ObserverOfGetAltAzimuth \/ ObserverOfGetNextPasses

SpecHome == InitHome /\ [][NextHome]_vars

\* ------------------------------------------------ the element sets refreshed

\* The state after construction; fn counts the downloads of amateur.txt and
\* holds the last look-up of an element set.
InitTles ==
    /\ satellite_data \in Databases
    /\ satellite_body_objects \in { ElementSets(f, 0) : f \in TleFiles }
    /\ by_number = ByNumber(satellite_body_objects)
    /\ settings = NoSettings
    /\ home = DefaultHome
    /\ satellites = MergeLoop(satellite_data, Satnums(satellite_body_objects))
    /\ checks \in CheckBoxStates
    /\ spinBoxNextPasses = 0
    /\ selected_satellite = FirstItem(fill_select_satellite_combo(satellites, checks))
    /\ lines = <<>>
    /\ next_pass_polar_lines = <<>>
    /\ call = NoCall
    /\ batch = NoBatch
    /\ timer = StartedTimer
    /\ fn = [op |-> "load_tles", pc |-> "idle", downloads |-> 0, refreshed |-> FALSE,
             method |-> "none", satellite |-> None,
             satellite_object |-> [satnum |-> 0, download |-> 0]]

\* on_pushButtonDownloadTLEs_clicked: load_tles() assigns the element sets of
\* the file to self.satellite_body_objects, and to nothing else
load_tles ==
    /\ fn.op = "load_tles" /\ fn.downloads < MaxDownloads
    /\ \E file \in TleFiles :
          satellite_body_objects' = ElementSets(file, fn.downloads + 1)
    /\ fn' = [fn EXCEPT !.pc = "idle", !.downloads = @ + 1, !.refreshed = TRUE]
    /\ UNCHANGED <<satellite_data, by_number, settings, home, satellites, checks,
                   spinBoxNextPasses, selected_satellite, drawn, call, batch, timer>>

\* on_pushButtonDownloadSatInfo_clicked: satslist.json is written anew and
\* set_up_satellite_data() loads both files
on_pushButtonDownloadSatInfo_clicked ==
    /\ fn.op = "load_tles" /\ fn.downloads < MaxDownloads
    /\ \E data \in Databases, file \in TleFiles :
       \E finds \in SetUpFinds(StartFound, data, ElementSets(file, fn.downloads + 1),
                               checks, spinBoxNextPasses) :
       \E up \in { set_up_satellite_data(data, ElementSets(file, fn.downloads + 1),
                                          checks, spinBoxNextPasses, finds, lines,
                                          next_pass_polar_lines) } :
             /\ satellite_data' = up.satellite_data
             /\ satellite_body_objects' = up.satellite_body_objects
             /\ by_number' = up.by_number
             /\ satellites' = up.satellites
             /\ checks' = up.checks
             /\ selected_satellite' = up.selected_satellite
             /\ lines' = up.lines
             /\ next_pass_polar_lines' = up.next_pass_polar_lines
             /\ timer' = up.timer
    /\ fn' = [fn EXCEPT !.pc = "idle", !.downloads = @ + 1, !.refreshed = FALSE]
    /\ UNCHANGED <<settings, home, spinBoxNextPasses, call, batch>>

\* satellite = self.by_number[int(satellite_number)] of get_alt_azimuth and of
\* get_next_passes, for a listed satellite whose look-up succeeds
ElementSetLookedUp ==
    /\ fn.op = "load_tles"
    /\ \E i \in 1..Len(satellites), method \in {"get_alt_azimuth", "get_next_passes"} :
          /\ LookUp(satellites, DOMAIN by_number, satellites[i].Satellite) = "ok"
          /\ fn' = [fn EXCEPT !.pc = "called", !.method = method,
                              !.satellite = satellites[i].Satellite,
                              !.satellite_object =
                                  by_number[StrToInt(satellites[i].Number)]]
    /\ UNCHANGED <<config, spinBoxNextPasses, selected_satellite, drawn, call, batch,
                   timer>>

NextTles == load_tles \/ on_pushButtonDownloadSatInfo_clicked \/ ElementSetLookedUp

SpecTles == InitTles /\ [][NextTles]_vars

\* ------------------------------------------------- graphqt5: Graph and Polar

\* (text, x, y, colour, fixed) combinations passed to add_text, remove_text and
\* their polar twins; the first two differ in `fixed` alone
TextEntries ==
    { <<"Azimuth", 0, 45, "red", TRUE>>,
      <<"Azimuth", 0, 45, "red", FALSE>>,
      <<"12:30", 0, 45, "red", FALSE>> }

\* lines as lists of (x, y, colour, size, text) points
LineA == << <<0, 10, "red", PointSize, "">>, <<1, 20, "red", PointSize, "12:30">> >>

LineB == << <<0, 45, "blue", PointSize, "12:31">> >>

\* the argument tuples of draw(*args)
DrawArgs == { <<>>, <<LineA>>, <<LineB>>, <<LineA, LineB>> }

\* (min, max, min, max) of the two axes as passed to the constructors: ranges
\* that are not zero, a zero range above zero, a zero range below zero
AxisArgs == { <<0, 90, 0, 360>>, <<5, 5, 7, 7>>, <<0, 90, 0 - 3, 0 - 3>> }

\* Graph.__init__: the attributes of a new graph
Graph_init(xmin, xmax, ymin, ymax, xgrids, ygrids, size_x, size_y, text_pixel_size) ==
    [class |-> "Graph",
     image_size_x |-> size_x, image_size_y |-> size_y, pixel_size |-> text_pixel_size,
     xmin |-> IF xmax - xmin = 0 THEN 0 ELSE xmin,
     xmax |-> IF xmax - xmin = 0 THEN 1 ELSE xmax,
     ymin |-> IF ymax - ymin = 0 THEN (IF ymax > 0 THEN 0 ELSE ymin) ELSE ymin,
     ymax |-> IF ymax - ymin = 0 THEN (IF ymax > 0 THEN ymax ELSE 0) ELSE ymax,
     xgrids |-> IF xgrids <= 0 THEN 1 ELSE xgrids,
     ygrids |-> IF ygrids <= 0 THEN 1 ELSE ygrids,
     xformat |-> "{}", yformat |-> "{}",
     texts |-> <<>>, polarTexts |-> <<>>, lines |-> <<>>, graph_image |-> None]

\* Polar.__init__: the attributes of a new polar graph
Polar_init(r_min, r_max, theta_min, theta_max, r_circles, theta_spokes, size_x, size_y, text_pixel_size) ==
    [class |-> "Polar",
     image_size_x |-> size_x, image_size_y |-> size_y, pixel_size |-> text_pixel_size,
     xmin |-> IF r_max - r_min = 0 THEN 0 ELSE r_min,
     xmax |-> IF r_max - r_min = 0 THEN 1 ELSE r_max,
     ymin |-> IF theta_max - theta_min = 0
              THEN (IF theta_max > 0 THEN 0 ELSE theta_min) ELSE theta_min,
     ymax |-> IF theta_max - theta_min = 0
              THEN (IF theta_max > 0 THEN theta_max ELSE 0) ELSE theta_max,
     xgrids |-> IF r_circles <= 0 THEN 1 ELSE r_circles,
     ygrids |-> IF theta_spokes <= 0 THEN 1 ELSE theta_spokes,
     xformat |-> "{}", yformat |-> "{}",
     texts |-> <<>>, polarTexts |-> <<>>, lines |-> <<>>, graph_image |-> None]

\* set_grid_label_format: the two formats are saved
set_grid_label_format(graph, x, y) == [graph EXCEPT !.xformat = x, !.yformat = y]

\* tx and pRad divide by xmax - xmin, ty by ymax - ymin
tx(graph) == IF graph.xmax - graph.xmin = 0 THEN "ZeroDivisionError" ELSE "none"

ty(graph) == IF graph.ymax - graph.ymin = 0 THEN "ZeroDivisionError" ELSE "none"

pRad(graph) == IF graph.xmax - graph.xmin = 0 THEN "ZeroDivisionError" ELSE "none"

\* the first exception of two steps in their order
Then(first, second) == IF first # "none" THEN first ELSE second

\* Graph._grid_and_texts: tx and ty are called for every text
grid_and_texts(graph) ==
    IF graph.texts # <<>> THEN Then(tx(graph), ty(graph)) ELSE "none"

\* Polar._grid_and_texts: tx and ty for every text, pr and pt (which call
\* pRad) for every polar text
Polar_grid_and_texts(graph) ==
    Then(IF graph.texts # <<>> THEN Then(tx(graph), ty(graph)) ELSE "none",
         IF graph.polarTexts # <<>> THEN pRad(graph) ELSE "none")

\* some line of the arguments holds a point
HasPoint(args) == \E i \in 1..Len(args) : args[i] # <<>>

\* what Graph.draw raises: the texts are drawn first, then tx and ty are
\* called for every point of the lines
draw_raised(graph, args) ==
    Then(grid_and_texts(graph),
         IF HasPoint(args) THEN Then(tx(graph), ty(graph)) ELSE "none")

\* what Polar.draw raises: pr and pt are called for every point
Polar_draw_raised(graph, args) ==
    Then(Polar_grid_and_texts(graph), IF HasPoint(args) THEN pRad(graph) ELSE "none")

\* list.index(x): the first position of an element equal to x, 0 standing for
\* the ValueError of an absent x
index(list, x) ==
    IF \E i \in 1..Len(list) : list[i] = x
    THEN CHOOSE i \in 1..Len(list) : list[i] = x /\ \A j \in 1..(i - 1) : list[j] # x
    ELSE 0

\* del list[inx]
del(list, inx) == SubSeq(list, 1, inx - 1) \o SubSeq(list, inx + 1, Len(list))

\* list.remove(x) for an x in the list
remove(list, x) == del(list, index(list, x))

\* self.texts.append((text, x, y, colour, fixed))
add_text(texts, text, x, y, colour, fixed) == Append(texts, <<text, x, y, colour, fixed>>)

\* self.polarTexts.append((text, r, theta, colour, fixed))
add_polar_text(polarTexts, text, r, theta, colour, fixed) == Append(polarTexts, <<text, r, theta, colour, fixed>>)

remove_text_all_equal(texts, text, x, y, colour, fixed) ==
    LET inx == index(texts, <<text, x, y, colour, fixed>>)
    IN IF inx = 0
       THEN [raised |-> "ValueError", texts |-> texts]
       ELSE [raised |-> "none",
             texts |-> SelectSeq(texts, LAMBDA t : t # <<text, x, y, colour, fixed>>)]

\* remove_text: index() raises ValueError before anything is deleted
remove_text(texts, text, x, y, colour, fixed) ==
    LET inx == index(texts, <<text, x, y, colour, fixed>>)
    IN IF inx = 0
       THEN [raised |-> "ValueError", texts |-> texts]
       ELSE [raised |-> "none", texts |-> del(texts, inx)]

\* remove_polar_text: the same on self.polarTexts
remove_polar_text(polarTexts, text, r, theta, colour, fixed) ==
    LET inx == index(polarTexts, <<text, r, theta, colour, fixed>>)
    IN IF inx = 0
       THEN [raised |-> "ValueError", texts |-> polarTexts]
       ELSE [raised |-> "none", texts |-> del(polarTexts, inx)]

RECURSIVE ClearLoopOverLiveList(_, _, _)
ClearLoopOverLiveList(copy, i, texts) ==
    IF i > Len(texts) THEN texts
    ELSE IF ~texts[i][5]
         THEN ClearLoopOverLiveList(copy, i + 1, remove(texts, texts[i]))
         ELSE ClearLoopOverLiveList(copy, i + 1, texts)

\* for t in self.texts[:]: if not t[4]: self.texts.remove(t)
\* copy is the list as it was, texts the list the loop removes from
RECURSIVE ClearLoop(_, _, _)
ClearLoop(copy, i, texts) ==
    IF i > Len(copy) THEN texts
    ELSE IF ~copy[i][5]
         THEN ClearLoop(copy, i + 1, remove(texts, copy[i]))
         ELSE ClearLoop(copy, i + 1, texts)

clear_texts(texts) == ClearLoop(texts, 1, texts)

clear_polar_texts(polarTexts) == ClearLoop(polarTexts, 1, polarTexts)

draw_keeps_earlier_lines(graph, args) ==
    [graph EXCEPT !.lines = IF graph.lines = <<>> THEN args ELSE graph.lines,
                  !.graph_image = "QPixmap"]

\* Graph.draw: the arguments and a new pixmap are saved; _grid_and_texts and
\* the painter read the other attributes
draw(graph, args) == [graph EXCEPT !.lines = args, !.graph_image = "QPixmap"]

\* Polar.draw saves the same two attributes
Polar_draw(graph, args) == [graph EXCEPT !.lines = args, !.graph_image = "QPixmap"]

\* get_image: the pixmap as an image, None if no graph has been drawn
get_image(graph) == IF graph.graph_image # None THEN "QImage" ELSE None

\* save_image: what image.save() answered, None if there is no image
save_image(graph, saved) == IF get_image(graph) # None THEN saved ELSE None

\* A graph right after its construction.  fn holds the graph, the graph as it
\* was before the last method call, the call and what it returned or raised.
InitGraph ==
    /\ satellite_data = <<>>
    /\ satellite_body_objects = <<>>
    /\ by_number = ByNumber(satellite_body_objects)
    /\ settings = NoSettings
    /\ home = DefaultHome
    /\ satellites = <<>>
    /\ checks = CHOOSE c \in CheckBoxStates : c.Mode = "Any"
    /\ spinBoxNextPasses = 0
    /\ selected_satellite = None
    /\ lines = <<>>
    /\ next_pass_polar_lines = <<>>
    /\ call = NoCall
    /\ batch = NoBatch
    /\ timer = NoTimer
    /\ \E a \in AxisArgs :
         \E g \in { Graph_init(a[1], a[2], a[3], a[4], 10, 10, 500, 500, 12),
                    Polar_init(a[1], a[2], a[3], a[4], 6, 12, 500, 500, 12) } :
            fn = [op |-> "graph", graph |-> g, before |-> g, method |-> "__init__",
                  args |-> <<>>, result |-> None, first_draw_done |-> FALSE]

\* the graph after a method call that returned `result`
Returned(method, args, graph, result) ==
    /\ fn' = [fn EXCEPT !.graph = graph, !.before = fn.graph, !.method = method,
                        !.args = args, !.result = result,
                        !.first_draw_done = @ \/ method = "draw"]
    /\ UNCHANGED <<config, spinBoxNextPasses, selected_satellite, drawn, call, batch,
                   timer>>

TextsHeld == Len(fn.graph.texts) + Len(fn.graph.polarTexts)

CallAddText ==
    /\ fn.op = "graph" /\ TextsHeld < MaxTexts
    /\ \E e \in TextEntries :
          Returned("add_text", e,
                   [fn.graph EXCEPT !.texts = add_text(@, e[1], e[2], e[3], e[4], e[5])],
                   None)

CallRemoveText ==
    /\ fn.op = "graph"
    /\ \E e \in TextEntries :
          LET r == remove_text(fn.graph.texts, e[1], e[2], e[3], e[4], e[5])
          IN Returned("remove_text", e, [fn.graph EXCEPT !.texts = r.texts],
                      IF r.raised = "none" THEN None ELSE r.raised)

CallClearTexts ==
    /\ fn.op = "graph"
    /\ Returned("clear_texts", <<>>, [fn.graph EXCEPT !.texts = clear_texts(@)], None)

CallAddPolarText ==
    /\ fn.op = "graph" /\ fn.graph.class = "Polar" /\ TextsHeld < MaxTexts
    /\ \E e \in TextEntries :
          Returned("add_polar_text", e,
                   [fn.graph EXCEPT
                       !.polarTexts = add_polar_text(@, e[1], e[2], e[3], e[4], e[5])],
                   None)

CallRemovePolarText ==
    /\ fn.op = "graph" /\ fn.graph.class = "Polar"
    /\ \E e \in TextEntries :
          LET r == remove_polar_text(fn.graph.polarTexts, e[1], e[2], e[3], e[4], e[5])
          IN Returned("remove_polar_text", e, [fn.graph EXCEPT !.polarTexts = r.texts],
                      IF r.raised = "none" THEN None ELSE r.raised)

CallClearPolarTexts ==
    /\ fn.op = "graph" /\ fn.graph.class = "Polar"
    /\ Returned("clear_polar_texts", <<>>,
                [fn.graph EXCEPT !.polarTexts = clear_polar_texts(@)], None)

CallDraw ==
    /\ fn.op = "graph"
    /\ \E args \in DrawArgs :
          LET raised == IF fn.graph.class = "Polar"
                        THEN Polar_draw_raised(fn.graph, args)
                        ELSE draw_raised(fn.graph, args)
          IN Returned("draw", args,
                      IF fn.graph.class = "Polar" THEN Polar_draw(fn.graph, args)
                                                  ELSE draw(fn.graph, args),
                      IF raised = "none" THEN None ELSE raised)

CallGetImage ==
    /\ fn.op = "graph"
    /\ Returned("get_image", <<>>, fn.graph, get_image(fn.graph))

CallSaveImage ==
    /\ fn.op = "graph"
    /\ \E saved \in {"True", "False"} :
          Returned("save_image", <<>>, fn.graph, save_image(fn.graph, saved))

NextGraph ==
    \/ CallAddText \/ CallRemoveText \/ CallClearTexts
    \/ CallAddPolarText \/ CallRemovePolarText \/ CallClearPolarTexts
    \/ CallDraw \/ CallGetImage \/ CallSaveImage

SpecGraph == InitGraph /\ [][NextGraph]_vars

\* --------------------------------------- graphqt5: construction, reCreateGraph

\* Scatter and Poly inherit Graph.__init__, PolarScatter and PolarPoly inherit
\* Polar.__init__; each has a draw of its own that saves the same attributes
\* and calls the same translations as the draw of its parent
GraphClasses == {"Graph", "Scatter", "Poly"}

PolarClasses == {"Polar", "PolarScatter", "PolarPoly"}

\* (xmin, xmax, ymin, ymax, xgrids, ygrids) of Graph.__init__, (r_min, r_max,
\* theta_min, theta_max, r_circles, theta_spokes) of Polar.__init__: values a
\* caller may pass, equal bounds and negative grid counts among them
CreateArgs ==
    { <<0, 90, 0, 360, 6, 12>>, <<5, 5, 7, 7, 0, 12>>,
      <<0, 90, 0 - 3, 0 - 3, 6, 0 - 1>>, <<0, 90, 0, 0, 6, 12>> }

\* the texts added to a graph that is re-created
CreateTexts == { <<"Azimuth", 0, 45, "red", TRUE>>, <<"12:30", 0, 45, "red", FALSE>> }

CreateDrawArgs == { <<>>, <<LineA, LineB>> }

\* the formats of set_grid_label_format; '{}' is the default
LabelFormats == { <<"{}", "{}">>, <<"{:0.2f}", "{:0.0f}">> }

\* (new_x_size, new_y_size, new_text_pixel_size) of reCreateGraph, <<>>
\* standing for an argument left out (None)
NewSizes ==
    { << <<>>, <<>>, <<>> >>, << <<300>>, <<>>, <<10>> >>, << <<>>, <<300>>, <<>> >> }

NoGraph == [class |-> "none"]

\* an object that is no Graph
NotAGraph == [class |-> "object"]

\* graph_class(...): the constructor of the class
graph_class(class, xmin, xmax, ymin, ymax, xgrids, ygrids, size_x, size_y, text_pixel_size) ==
    IF class \in PolarClasses
    THEN [Polar_init(xmin, xmax, ymin, ymax, xgrids, ygrids, size_x, size_y, text_pixel_size)
             EXCEPT !.class = class]
    ELSE [Graph_init(xmin, xmax, ymin, ymax, xgrids, ygrids, size_x, size_y, text_pixel_size)
             EXCEPT !.class = class]

\* new_graph.draw(*lines) of the class of the graph
class_draw(graph, args) ==
    IF graph.class \in PolarClasses THEN Polar_draw(graph, args) ELSE draw(graph, args)

class_draw_raised(graph, args) ==
    IF graph.class \in PolarClasses THEN Polar_draw_raised(graph, args)
    ELSE draw_raised(graph, args)

\* an argument given, or the attribute of the graph where it is None
OrOld(new_size, old_size) == IF new_size = <<>> THEN old_size ELSE new_size[1]

reCreateGraph_without_texts(graph, new_x_size, new_y_size, new_text_pixel_size) ==
    IF graph.class \notin GraphClasses \cup PolarClasses
    THEN [raised |-> "NotAGraphError", new_graph |-> NoGraph, graph |-> graph]
    ELSE LET new == graph_class(graph.class, graph.xmin, graph.xmax, graph.ymin,
                                graph.ymax, graph.xgrids, graph.ygrids,
                                OrOld(new_x_size, graph.image_size_x),
                                OrOld(new_y_size, graph.image_size_y),
                                OrOld(new_text_pixel_size, graph.pixel_size))
             formatted == set_grid_label_format(new, graph.xformat, graph.yformat)
             raised == class_draw_raised(formatted, graph.lines)
         IN [raised |-> raised,
             new_graph |-> IF raised = "none" THEN class_draw(formatted, graph.lines)
                           ELSE NoGraph,
             graph |-> graph]

\* reCreateGraph: a graph of type(graph) is constructed from the attributes of
\* the graph and the sizes, the formats and copies of the text lists are set,
\* and the lines of the graph are drawn; an exception of draw leaves it
reCreateGraph(graph, new_x_size, new_y_size, new_text_pixel_size) ==
    IF graph.class \notin GraphClasses \cup PolarClasses
    THEN [raised |-> "NotAGraphError", new_graph |-> NoGraph, graph |-> graph]
    ELSE LET new == graph_class(graph.class, graph.xmin, graph.xmax, graph.ymin,
                                graph.ymax, graph.xgrids, graph.ygrids,
                                OrOld(new_x_size, graph.image_size_x),
                                OrOld(new_y_size, graph.image_size_y),
                                OrOld(new_text_pixel_size, graph.pixel_size))
             formatted == set_grid_label_format(new, graph.xformat, graph.yformat)
             filled == [formatted EXCEPT !.texts = graph.texts,
                                         !.polarTexts = graph.polarTexts]
             raised == class_draw_raised(filled, graph.lines)
         IN [raised |-> raised,
             new_graph |-> IF raised = "none" THEN class_draw(filled, graph.lines)
                           ELSE NoGraph,
             graph |-> graph]

\* No graph yet.  fn holds the graph of the program, the last call with its
\* arguments, what it raised, and for reCreateGraph the graph given, that graph
\* after the call and the graph returned.
InitCreate ==
    /\ satellite_data = <<>>
    /\ satellite_body_objects = <<>>
    /\ by_number = ByNumber(satellite_body_objects)
    /\ settings = NoSettings
    /\ home = DefaultHome
    /\ satellites = <<>>
    /\ checks = CHOOSE c \in CheckBoxStates : c.Mode = "Any"
    /\ spinBoxNextPasses = 0
    /\ selected_satellite = None
    /\ lines = <<>>
    /\ next_pass_polar_lines = <<>>
    /\ call = NoCall
    /\ batch = NoBatch
    /\ timer = NoTimer
    /\ fn = [op |-> "create", graph |-> NoGraph, method |-> "none", args |-> <<>>,
             raised |-> "none", given |-> NoGraph, given_after |-> NoGraph,
             new_graph |-> NoGraph]

\* the graph of the program after a method of it was called
Created(method, args, graph, raised) ==
    /\ fn' = [fn EXCEPT !.graph = graph, !.method = method, !.args = args,
                        !.raised = raised, !.given = NoGraph,
                        !.given_after = NoGraph, !.new_graph = NoGraph]
    /\ UNCHANGED <<config, spinBoxNextPasses, selected_satellite, drawn, call, batch,
                   timer>>

\* A caller of the library constructs a graph: Graph.__init__ or
\* Polar.__init__ runs for the class, with axis ranges and grid counts of
\* CreateArgs, a size of 500 by 500 and a text size of 12
Construct ==
    /\ fn.op = "create" /\ fn.graph = NoGraph
    /\ \E class \in GraphClasses \cup PolarClasses, a \in CreateArgs :
          Created("__init__", a,
                  graph_class(class, a[1], a[2], a[3], a[4], a[5], a[6], 500, 500, 12),
                  "none")

CreateHeld == Len(fn.graph.texts) + Len(fn.graph.polarTexts)

CreateAddText ==
    /\ fn.op = "create" /\ fn.graph # NoGraph /\ CreateHeld < MaxCreateTexts
    /\ \E e \in CreateTexts :
          \/ Created("add_text", e,
                     [fn.graph EXCEPT !.texts = add_text(@, e[1], e[2], e[3], e[4], e[5])],
                     "none")
          \/ /\ fn.graph.class \in PolarClasses
             /\ Created("add_polar_text", e,
                        [fn.graph EXCEPT
                            !.polarTexts = add_polar_text(@, e[1], e[2], e[3], e[4], e[5])],
                        "none")

CreateSetFormat ==
    /\ fn.op = "create" /\ fn.graph # NoGraph
    /\ \E f \in LabelFormats :
          Created("set_grid_label_format", f, set_grid_label_format(fn.graph, f[1], f[2]),
                  "none")

CreateDraw ==
    /\ fn.op = "create" /\ fn.graph # NoGraph
    /\ \E args \in CreateDrawArgs :
          Created("draw", args, class_draw(fn.graph, args),
                  class_draw_raised(fn.graph, args))

\* update_graph_sizes: self.graph = reCreateGraph(self.graph, x_size, y_size);
\* an exception leaves the assignment out
CallReCreateGraph ==
    /\ fn.op = "create" /\ fn.graph # NoGraph
    /\ \E given \in {fn.graph, NotAGraph}, sizes \in NewSizes :
          LET r == reCreateGraph(given, sizes[1], sizes[2], sizes[3])
          IN fn' = [fn EXCEPT !.graph = IF r.raised = "none" /\ given = fn.graph
                                        THEN r.new_graph ELSE @,
                              !.method = "reCreateGraph", !.args = sizes,
                              !.raised = r.raised, !.given = given,
                              !.given_after = r.graph, !.new_graph = r.new_graph]
    /\ UNCHANGED <<config, spinBoxNextPasses, selected_satellite, drawn, call, batch,
                   timer>>

NextCreate ==
    Construct \/ CreateAddText \/ CreateSetFormat \/ CreateDraw \/ CallReCreateGraph

SpecCreate == InitCreate /\ [][NextCreate]_vars

\* ------------------------------------------ satslist.csv into satslist.json

\* Lines of satslist.csv as the fields csv.split(';') yields: Satellite,
\* Number, Uplink, Downlink, Beacon, Mode, Callsign, Status.  The fields the
\* handler searches are sequences of characters.
CsvAO7 ==
    <<"AO-7", <<"7">>, <<"1", "-", "2">>, <<"3", "-", "4">>, "29.502", "SSB", "", "active">>

CsvFO29 ==
    <<"FO-29", <<" ", "2", "5">>, <<"5">>, <<"6">>, "", "FM SSB", "8J1JCS",
      "operational">>

CsvSO50 == <<"SO-50", <<"5">>, <<" ">>, <<"6", "/", "7">>, " ", "FM", "", "inactive">>

\* a second line with the number of AO-7
CsvXW2A == <<"XW-2A", <<"7">>, <<>>, <<>>, "145.660", "", "BJ1SB", "decayed">>

\* an empty line: ''.split(';') is ['']
CsvEmptyLine == <<"">>

CsvLines == {CsvAO7, CsvFO29, CsvSO50, CsvXW2A, CsvEmptyLine}

RECURSIVE SeqsUpTo(_, _)
SeqsUpTo(S, n) ==
    IF n = 0 THEN {<<>>}
    ELSE LET shorter == SeqsUpTo(S, n - 1)
         IN shorter \cup { Append(q, x) : q \in { r \in shorter : Len(r) = n - 1 }, x \in S }

\* the files satslist.csv may be
CsvFiles == SeqsUpTo(CsvLines, MaxCsvRows)

\* the truth value of a string
Truthy(s) == s # ""

\* the string of a sequence of characters
RECURSIVE JoinChars(_)
JoinChars(cs) == IF Len(cs) = 0 THEN "" ELSE cs[1] \o JoinChars(Tail(cs))

\* str.strip() of a sequence of characters
RECURSIVE strip(_)
strip(cs) ==
    IF Len(cs) > 0 /\ cs[1] \in StrWhitespace THEN strip(Tail(cs))
    ELSE IF Len(cs) > 0 /\ cs[Len(cs)] \in StrWhitespace
    THEN strip(SubSeq(cs, 1, Len(cs) - 1))
    ELSE cs

\* the fields the model holds as sequences of characters
CharFields == {2, 3, 4}

\* dict(zip(csv_field_names, (s.strip() for s in sat.strip().split(';')))):
\* the first eight fields, each without the white space at its ends
zip(csv) ==
    [i \in 1..8 |-> IF i \in CharFields THEN strip(csv[i])
                    ELSE JoinChars(strip(Chars(csv[i])))]

\* str.replace('bps ', 'bps:'), from the left
RECURSIVE replace(_)
replace(cs) ==
    IF Len(cs) < 4 THEN cs
    ELSE IF SubSeq(cs, 1, 4) = <<"b", "p", "s", " ">>
    THEN <<"b", "p", "s", ":">> \o replace(SubSeq(cs, 5, Len(cs)))
    ELSE <<cs[1]>> \o replace(Tail(cs))

\* str.split(' '): the pieces between single blanks, empty ones included
RECURSIVE split(_, _)
split(cs, piece) ==
    IF Len(cs) = 0 THEN <<JoinChars(piece)>>
    ELSE IF cs[1] = " " THEN <<JoinChars(piece)>> \o split(Tail(cs), <<>>)
    ELSE split(Tail(cs), Append(piece, cs[1]))

\* csv.split(';')[7] == 'active' or 'operational': the comparison, or else the
\* truth value of 'operational'
IsActive(csv) == IF csv[8] = "active" THEN TRUE ELSE Truthy("operational")

\* active_sats_list: filter_active as the list comprehension consumes it.
\* split(';')[7] raises IndexError for a line of fewer than 8 fields; the rows
\* kept are the dicts of the stripped fields
RECURSIVE filter_active(_)
filter_active(csv_lines) ==
    IF Len(csv_lines) = 0 THEN [raised |-> "none", rows |-> <<>>]
    ELSE IF Len(csv_lines[1]) < 8 THEN [raised |-> "IndexError", rows |-> <<>>]
    ELSE LET rest == filter_active(Tail(csv_lines))
         IN IF rest.raised # "none" THEN rest
            ELSE IF IsActive(csv_lines[1])
                 THEN [rest EXCEPT !.rows = <<zip(csv_lines[1])>> \o @]
                 ELSE rest

\* for sat in active_sats_list[:]: a row whose Number was seen is removed
RECURSIVE DuplicatesLoop(_, _, _, _)
DuplicatesLoop(copy, i, active_sats_list, sat_number_list) ==
    IF i > Len(copy) THEN active_sats_list
    ELSE IF copy[i][2] \in sat_number_list
         THEN DuplicatesLoop(copy, i + 1, remove(active_sats_list, copy[i]),
                             sat_number_list)
         ELSE DuplicatesLoop(copy, i + 1, active_sats_list,
                             sat_number_list \cup {copy[i][2]})

\* sat_dict of a row, as json.load gives it back: a feature is TRUE when its
\* list is not empty; Modes holds the pieces of the Mode field; Status is kept
sat_dict(s) ==
    LET transponder == IsSubstring(<<"-">>, s[3])
    IN [Satellite |-> s[1], Number |-> s[2],
        TransponderUplink |-> s[3] # <<>> /\ transponder,
        Uplinks |-> s[3] # <<>> /\ ~transponder,
        Downlinks |-> s[4] # <<>> /\ ~transponder,
        Beacons |-> Truthy(s[5]),
        Modes |-> IF Truthy(s[6])
                  THEN LET pieces == split(replace(Chars(s[6])), <<>>)
                       IN { pieces[i] : i \in 1..Len(pieces) }
                  ELSE {},
        Status |-> s[8]]

\* sats_dict[s['Satellite']] = sat_dict: a name keeps its first place and takes
\* the last value
RECURSIVE SatsDictLoop(_, _)
SatsDictLoop(rows, sats_dict) ==
    IF Len(rows) = 0 THEN sats_dict
    ELSE LET d == sat_dict(rows[1])
             held == { i \in 1..Len(sats_dict) : sats_dict[i].Satellite = d.Satellite }
         IN SatsDictLoop(Tail(rows),
                         IF held = {} THEN Append(sats_dict, d)
                         ELSE [i \in 1..Len(sats_dict) |->
                                  IF i \in held THEN d ELSE sats_dict[i]])

\* the satslist.json on_pushButtonDownloadSatInfo_clicked writes for a
\* satslist.csv, or the exception that leaves the handler before
satslist_json(csv_lines) ==
    LET active == filter_active(csv_lines)
    IN IF active.raised # "none" THEN [raised |-> active.raised, sats_dict |-> <<>>]
       ELSE [raised |-> "none",
             sats_dict |-> SatsDictLoop(DuplicatesLoop(active.rows, 1, active.rows, {}),
                                        <<>>)]

\* The state after construction; fn holds the satslist.csv of the last
\* download and what the handler wrote or raised.
InitCsv ==
    /\ satellite_data \in Databases
    /\ satellite_body_objects \in { ElementSets(f, 0) : f \in TleFiles }
    /\ by_number = ByNumber(satellite_body_objects)
    /\ settings = NoSettings
    /\ home = DefaultHome
    /\ satellites = MergeLoop(satellite_data, Satnums(satellite_body_objects))
    /\ checks = CHOOSE c \in CheckBoxStates : c.Mode = "Any"
    /\ spinBoxNextPasses = 0
    /\ selected_satellite = FirstItem(fill_select_satellite_combo(satellites, checks))
    /\ lines = <<>>
    /\ next_pass_polar_lines = <<>>
    /\ call = NoCall
    /\ batch = NoBatch
    /\ timer = StartedTimer
    /\ fn = [op |-> "csv", pc |-> "idle", csv |-> <<>>, raised |-> "none",
             sats_dict |-> <<>>]

\* on_pushButtonDownloadSatInfo_clicked: satslist.csv is downloaded, the json
\* file is written from it and set_up_satellite_data() loads the json file and
\* amateur.txt.  What it writes depends on the files alone, so one download
\* is followed per behaviour.
DownloadSatInfo ==
    /\ fn.op = "csv" /\ fn.pc = "idle"
    /\ \E csv \in CsvFiles, file \in TleFiles :
       \E finds \in SetUpFinds(StartFound, satslist_json(csv).sats_dict,
                               ElementSets(file, 1), checks, spinBoxNextPasses) :
       \E up \in { set_up_satellite_data(satslist_json(csv).sats_dict,
                                          ElementSets(file, 1), checks,
                                          spinBoxNextPasses, finds, lines,
                                          next_pass_polar_lines) } :
          LET written == satslist_json(csv)
          IN /\ fn' = [fn EXCEPT !.pc = "done", !.csv = csv, !.raised = written.raised,
                                 !.sats_dict = written.sats_dict]
             /\ IF written.raised = "none"
                THEN /\ satellite_data' = up.satellite_data
                     /\ satellite_body_objects' = up.satellite_body_objects
                     /\ by_number' = up.by_number
                     /\ satellites' = up.satellites
                     /\ checks' = up.checks
                     /\ selected_satellite' = up.selected_satellite
                     /\ lines' = up.lines
                     /\ next_pass_polar_lines' = up.next_pass_polar_lines
                     /\ timer' = up.timer
                ELSE UNCHANGED <<satellite_data, satellite_body_objects, by_number,
                                 satellites, checks, selected_satellite, drawn, timer>>
    /\ UNCHANGED <<settings, home, spinBoxNextPasses, call, batch>>

NextCsv == DownloadSatInfo

SpecCsv == InitCsv /\ [][NextCsv]_vars

\* ------------------------------------------------------------------ claims

\* the name of an event number of find_events
KindName(e) == CASE e = 0 -> "rise" [] e = 1 -> "transit" [] e = 2 -> "set"

\* the events find_events found, as (time, name) pairs in their order
Reported(found) == [i \in 1..Len(found) |-> <<found[i][1], KindName(found[i][2])>>]

SetsIn(events) == Cardinality({ i \in 1..Len(events) : events[i][2] = "set" })

\* a get_next_passes call that reached the event search has returned
Searched == fn.op = "get_next_passes" /\ fn.done /\ fn.result.searched

\* C1: get_next_passes(satellite, N) returns a prefix, in the original order, of
\* the events found: at most N 'set' events, nothing after the N-th 'set', every
\* found event when fewer than N 'set' events exist, and nothing when N = 0.
C1_CappedPrefix ==
    Searched =>
        LET res == fn.result.event_list
            all == Reported(fn.found)
            n == fn.number_of_passes
        IN /\ IsPrefix(res, all)
           /\ SetsIn(res) <= n
           /\ (n > 0 /\ SetsIn(res) = n) => Last(res)[2] = "set"
           /\ Len(res) < Len(all) => SetsIn(res) = n
           /\ SetsIn(all) < n => res = all
           /\ n = 0 => res = <<>>

\* a call that stopped after the second 'set' with events left over
C1_Witness ==
    /\ Searched
    /\ fn.number_of_passes = 2
    /\ SetsIn(fn.result.event_list) = 2
    /\ Len(fn.result.event_list) < Len(fn.found)

\* the satellite never crosses the horizon inside the window: find_events
\* reports neither a rise nor a set, only the culminations of a satellite that
\* stays above the horizon, or nothing at all
NeverCrosses(found) == \A i \in 1..Len(found) : found[i][2] = 1

\* C2 as stated: when the satellite never crosses the horizon inside the
\* search window, get_next_passes returns an empty event list and raises no
\* exception.
C2_NeverCrossingIsEmpty ==
    (Searched /\ NeverCrosses(fn.found)) =>
        /\ fn.result.event_list = <<>>
        /\ fn.result.raised = "none"

\* C2, amended: when the satellite never crosses the horizon inside the search
\* window, get_next_passes raises no exception; it returns the empty list when
\* the event search reports nothing or when no pass is asked for, and else the
\* culminations the search reports, all of them and in their order.
C2_NoCrossingIsEmpty ==
    (Searched /\ NeverCrosses(fn.found)) =>
        /\ fn.result.raised = "none"
        /\ fn.found = <<>> => fn.result.event_list = <<>>
        /\ fn.number_of_passes = 0 => fn.result.event_list = <<>>
        /\ fn.number_of_passes > 0 => fn.result.event_list = Reported(fn.found)
        /\ \A i \in 1..Len(fn.result.event_list) :
              fn.result.event_list[i][2] = "transit"

\* a satellite that stays above the horizon and culminates twice: both
\* culminations are returned
C2_Witness ==
    /\ Searched /\ NeverCrosses(fn.found) /\ fn.number_of_passes > 0
    /\ Len(fn.found) = 2
    /\ Len(fn.result.event_list) = 2

\* C6: the events one get_next_passes call returns are in non-decreasing time
\* order, also when the list is cut at the pass cap.
C6_TimeOrdered ==
    Searched =>
        \A i, j \in 1..Len(fn.result.event_list) :
            i < j => fn.result.event_list[i][1] <= fn.result.event_list[j][1]

\* a list of three events or more that was cut at the cap
C6_Witness ==
    /\ Searched
    /\ Len(fn.result.event_list) >= 3
    /\ Len(fn.result.event_list) < Len(fn.found)

\* a create_pass_line call with rise before set has returned
LineDrawn ==
    fn.op = "create_pass_line" /\ fn.done /\ fn.rise_time < fn.setting_time

\* C3 as stated: the points of create_pass_line end with a point taken at the
\* set time itself.
C3_LastPointAtSet ==
    LineDrawn => (Len(fn.result) > 0 /\ Last(fn.result).at = fn.setting_time)

\* C3 as amended: the last point is the last regularly spaced sample, at most
\* one step before the set time and not after it; a point falls on the set
\* time only when the set time is a whole number of steps after the rise and
\* the sum of the steps is rounded below it, and then it is the last point.
C3_LastPointBeforeSet ==
    LineDrawn =>
        /\ Len(fn.result) > 0
        /\ Last(fn.result).at = fn.rise_time + (Len(fn.result) - 1) * fn.interval
        /\ Last(fn.result).at <= fn.setting_time
        /\ fn.setting_time - Last(fn.result).at <= fn.interval
        /\ \A k \in 1..(Len(fn.result) - 1) : fn.result[k].at < fn.setting_time
        /\ Last(fn.result).at = fn.setting_time =>
               /\ (fn.setting_time - fn.rise_time) % fn.interval = 0
               /\ fn.below
        /\ (fn.setting_time - fn.rise_time) % fn.interval # 0 =>
               Last(fn.result).at < fn.setting_time

\* a line of two points or more whose set time is less than a step after the
\* last sample
C3_Witness ==
    /\ LineDrawn
    /\ Len(fn.result) >= 2
    /\ fn.setting_time - Last(fn.result).at < fn.interval

\* a handler has called get_next_passes and the event search was reached
HandlerSearched == call.handler # "none" /\ call.searched

\* the methods that fill rows [rise, transit, set, name] from an event list
RowBuilders == {"transit_list_sorted_by_time", "display_next_passes"}

SlotName(j) == CASE j = 1 -> "rise" [] j = 2 -> "transit" [] j = 3 -> "set"

\* the number of the pass that event i of the list belongs to
PassIndex(events, i) == Cardinality({ k \in 1..(i - 1) : events[k][2] = "set" })

\* draw_upcoming_passes has walked the rows transit_list_sorted_by_time
\* returned to it
UpcomingDrawn ==
    batch.caller = "draw_upcoming_passes" /\ batch.pc \in {"up", "done"}

\* get_next_passes returns only events the event search reported, also when
\* the satellite is up at the start of the window (its first event is then no
\* 'rise')
ReturnsReportedEvents ==
    HandlerSearched =>
        /\ IsPrefix(call.event_list, Reported(call.found))
        /\ (Len(call.event_list) > 0 /\ call.found[1][2] # 0)
               => call.event_list[1][2] # "rise"

\* draw_next_passes_for_selected_satellite puts a rise at `now` in front of
\* the list when the first returned event is not a 'rise', and only then; no
\* other handler changes the list
RiseInsertedByDrawHandler ==
    HandlerSearched =>
        /\ call.pass_list # call.event_list =>
               /\ call.handler = "draw_next_passes"
               /\ call.event_list[1][2] # "rise"
               /\ Len(call.pass_list) = Len(call.event_list) + 1
               /\ call.pass_list[1][2] = "rise"
               /\ call.pass_list[1][1] \in NowBase..(NowBase + MaxSkew)
               /\ Tail(call.pass_list) = call.event_list
        /\ (call.handler = "draw_next_passes" /\ Len(call.event_list) > 0
                /\ call.event_list[1][2] = "rise")
               => call.pass_list = call.event_list

\* the rise of every row that transit_list_sorted_by_time and
\* display_next_passes_for_selected_satellite build is a 'rise' event that was
\* returned
RowsRiseReturned ==
    (HandlerSearched /\ call.handler \in RowBuilders) =>
        \A k \in 1..Len(call.transit_list) :
            call.transit_list[k][1] # 0 =>
                \E i \in 1..Len(call.event_list) :
                    call.event_list[i] = <<call.transit_list[k][1], "rise">>

\* C4 as stated: get_next_passes returns only events the event search
\* reported and never fabricates a rise; a rise at `now` is added only by
\* draw_next_passes_for_selected_satellite, and only when the first returned
\* event is not a 'rise': the rows of the other callers keep the rise slots
\* they were built with.
C4_RiseAddedOnlyByDrawHandler ==
    /\ ReturnsReportedEvents
    /\ RiseInsertedByDrawHandler
    /\ RowsRiseReturned
    /\ UpcomingDrawn => batch.transit_list = batch.sorted

\* C4, amended: get_next_passes returns only events the event search reported
\* and never fabricates a rise.  Two callers put the current time where a
\* rise is missing: draw_next_passes_for_selected_satellite inserts a rise at
\* `now` in front of the list, only when the first returned event is not a
\* 'rise', and draw_upcoming_passes writes its `now` into the rise slot of
\* every row whose rise slot is empty, and changes nothing else of the rows.
C4_NoFabricatedRise ==
    /\ ReturnsReportedEvents
    /\ RiseInsertedByDrawHandler
    /\ RowsRiseReturned
    /\ UpcomingDrawn =>
           /\ Len(batch.transit_list) = Len(batch.sorted)
           /\ \A k \in 1..Len(batch.sorted) :
                  batch.transit_list[k] =
                      IF batch.sorted[k][1] = 0
                      THEN [batch.sorted[k] EXCEPT ![1] = batch.now]
                      ELSE batch.sorted[k]

\* the satellite was up at the start of the window, and the handler drew the
\* pass from the inserted rise to the first set
C4_Witness ==
    /\ HandlerSearched
    /\ call.handler = "draw_next_passes"
    /\ Len(call.found) > 0
    /\ call.found[1][2] = 2
    /\ call.inserted
    /\ Len(next_pass_polar_lines) > 0
    /\ Len(next_pass_polar_lines[1]) > 0
    /\ next_pass_polar_lines[1][1].at = call.pass_list[1][1]

\* the satellite was up at the start of the window of a tick of the timer:
\* its row has a set and no rise, and draw_upcoming_passes has written its
\* `now` into the rise slot and drawn the row from there
C4_WitnessUpcoming ==
    /\ UpcomingDrawn
    /\ \E k \in 1..Len(batch.sorted) :
          /\ batch.sorted[k][1] = 0 /\ batch.sorted[k][3] # 0
          /\ batch.transit_list[k][1] = batch.now
          /\ Len(batch.next_pass_lines) > 0
          /\ batch.next_pass_lines[1][1].x = Frac(0, 1)

\* the window ends before the satellite sets: the last event found is no 'set'
WindowEndsMidPass(found) == Len(found) > 0 /\ Last(found)[2] # 2

\* the times of the events of the pass the window ends in
OpenPassTimes(found) ==
    { found[i][1] : i \in { k \in 1..Len(found) :
                              \A m \in k..Len(found) : found[m][2] # 2 } }

\* the handler's output holds an entry for the pass the window ends in
ShowsOpenPass ==
    IF call.handler \in RowBuilders
    THEN \E k \in 1..Len(call.transit_list) :
             \/ call.transit_list[k][1] \in OpenPassTimes(call.found)
             \/ call.transit_list[k][2] \in OpenPassTimes(call.found)
    ELSE Len(next_pass_polar_lines) > SetsIn(call.event_list)

\* C5 as stated: when the window ends before the satellite sets, the returned
\* events end with that pass's Rise (and possibly Transit) and no Set, and each
\* caller keeps that pass as an ongoing pass.
C5_OpenPassKept ==
    (HandlerSearched /\ WindowEndsMidPass(call.found)) =>
        /\ Len(call.event_list) > 0
        /\ Last(call.event_list) = Last(Reported(call.found))
        /\ ShowsOpenPass

\* C5 as amended: the returned events end with that pass's Rise (and possibly
\* Transit) and no Set when fewer than N Set events precede it, and end at the
\* N-th Set without that pass otherwise; no caller builds a pass record or a
\* line for that pass.
C5_OpenPassDropped ==
    (HandlerSearched /\ WindowEndsMidPass(call.found)) =>
        /\ SetsIn(Reported(call.found)) < call.number_of_passes =>
               /\ call.event_list = Reported(call.found)
               /\ Last(call.event_list)[2] \in {"rise", "transit"}
        /\ (call.number_of_passes > 0
                /\ SetsIn(Reported(call.found)) >= call.number_of_passes) =>
               /\ Last(call.event_list)[2] = "set"
               /\ \A i \in 1..Len(call.event_list) :
                      call.event_list[i][1] \notin OpenPassTimes(call.found)
        /\ call.number_of_passes = 0 => call.event_list = <<>>
        /\ call.handler \in RowBuilders =>
               /\ ~ShowsOpenPass
               /\ Len(call.transit_list) =
                      IF Len(call.event_list) = 0
                            /\ call.handler = "transit_list_sorted_by_time"
                      THEN 1 ELSE SetsIn(call.event_list)
        /\ (call.handler = "draw_next_passes" /\ Len(call.event_list) > 0) =>
               /\ ~ShowsOpenPass
               /\ Len(next_pass_polar_lines) = SetsIn(call.event_list)

\* the listing of a satellite that set once and rose again before the window
\* ended: one pass record, none for the open pass
C5_Witness ==
    /\ HandlerSearched /\ WindowEndsMidPass(call.found)
    /\ call.handler = "display_next_passes"
    /\ SetsIn(call.event_list) = 1
    /\ Last(call.event_list)[2] \in {"rise", "transit"}
    /\ Len(call.transit_list) = 1

\* C7: every pass record [rise, transit, set, name] built from a
\* get_next_passes event list holds times of one and the same pass, each in the
\* slot of its kind, and the times that are present satisfy
\* rise <= transit <= set.
C7_RowsOfOnePass ==
    (HandlerSearched /\ call.handler \in RowBuilders) =>
        \A k \in 1..Len(call.transit_list) :
            LET row == call.transit_list[k]
            IN /\ row[4] = call.satellite
               /\ \A a, b \in 1..3 :
                      (a < b /\ row[a] # 0 /\ row[b] # 0) => row[a] <= row[b]
               /\ \E p \in 0..Len(call.event_list) :
                      \A j \in 1..3 :
                          row[j] # 0 =>
                              \E i \in 1..Len(call.event_list) :
                                  /\ call.event_list[i] = <<row[j], SlotName(j)>>
                                  /\ PassIndex(call.event_list, i) = p

\* two records from one event list: the pass the window started in, then a
\* complete pass
C7_Witness ==
    /\ HandlerSearched /\ call.handler \in RowBuilders
    /\ Len(call.transit_list) = 2
    /\ \E k \in 1..2 : call.transit_list[k][1] = 0
    /\ \E k \in 1..2 :
           /\ call.transit_list[k][1] # 0
           /\ call.transit_list[k][2] # 0
           /\ call.transit_list[k][3] # 0

\* the pass of the loop has computed the shift of the selected frequency
DopplerComputed ==
    fn.op = "on_auto_update_timer" /\ fn.pc = "next" /\ fn.up.computed

\* the four shifts of the pass, each with its carrier frequency in Hz
ShiftsComputed ==
    { <<fn.up.doppler_shift_2m, Frac(145900000, 1)>>,
      <<fn.up.doppler_shift_100, Frac(100000000, 1)>>,
      <<fn.up.doppler_shift_70cm, Frac(436500000, 1)>>,
      <<fn.up.selected_doppler_shift, fn.up.frequency>> }

\* the speed of light, 299792.458 km/s
c == Frac(299792458, 1000)

\* 1 / a, for a > 0
RatInv(a) == Frac(a.den, a.num)

\* C8 as stated: every Doppler shift on_auto_update_timer computes for a
\* carrier frequency > 0 equals -range_rate / c * carrier_frequency, with c the
\* speed of light in km/s, and is positive for a negative range rate,
\* negative for a positive one and zero for zero.  (The equation is divided
\* by the frequency: shift / carrier_frequency = -range_rate / c.)
C8_DopplerOfLightSpeed ==
    DopplerComputed =>
        \A sf \in ShiftsComputed :
            sf[2].num > 0 =>
                LET range_rate == fn.result.d
                    shift == sf[1]
                IN /\ RatMul(shift, RatInv(sf[2])) = RatMul(RatNeg(range_rate), RatInv(c))
                   /\ range_rate.num < 0 => Sign(shift) = 1
                   /\ range_rate.num > 0 => Sign(shift) = -1
                   /\ range_rate.num = 0 => Sign(shift) = 0

\* What holds of C8: with 300000 km/s in the place of c, every shift stands
\* for -range_rate / 300000 * carrier_frequency, and for every carrier
\* frequency > 0 it is positive for a negative range rate, negative for a
\* positive one and zero for zero; the number written for it is one of the
\* two integers next to it.
C8_DopplerSign ==
    DopplerComputed =>
        /\ \A sf \in ShiftsComputed :
              sf[2].num > 0 =>
                  LET range_rate == fn.result.d
                      shift == sf[1]
                  IN /\ RatMul(shift, RatInv(sf[2]))
                          = RatDiv(RatNeg(range_rate), SpeedOfLight)
                     /\ range_rate.num < 0 => Sign(shift) = 1
                     /\ range_rate.num > 0 => Sign(shift) = -1
                     /\ range_rate.num = 0 => Sign(shift) = 0
        /\ LET shift == fn.up.selected_doppler_shift
               written == fn.up.doppler[1]
           IN /\ written * shift.den <= shift.num + shift.den
              /\ written * shift.den >= shift.num - shift.den

\* an approaching satellite above the horizon is the selected one, the shift
\* of its selected frequency lies in the middle of two integers, and the
\* lower one has been written
C8_TieWrittenLow ==
    /\ DopplerComputed
    /\ fn.up.frequency.num > 0
    /\ fn.result.d.num < 0
    /\ fn.result.d.den > 1
    /\ fn.up.selected_doppler_shift.den = 2
    /\ 2 * fn.up.doppler[1] < fn.up.selected_doppler_shift.num

\* get_alt_azimuth has returned for a satellite whose element set it found
AltAzComputed ==
    fn.op = "on_auto_update_timer" /\ fn.pc = "alt" /\ fn.result.computed

\* moments of the model's second: the range 1/StepsPerSecond s ago and ahead
StepsPerSecond == 3 * VelMax * VelMax + 1

\* StepsPerSecond times the observer-to-satellite vector after k moments
Ahead(pos, velocity, k) ==
    [j \in 1..3 |-> StepsPerSecond * pos[j] + k * velocity[j]]

\* the range grows: it was smaller a moment ago and is larger a moment ahead
Receding(pos, velocity) ==
    /\ NormSq(Ahead(pos, velocity, -1)) < NormSq(Ahead(pos, velocity, 0))
    /\ NormSq(Ahead(pos, velocity, 0)) < NormSq(Ahead(pos, velocity, 1))

\* the range shrinks
Approaching(pos, velocity) ==
    /\ NormSq(Ahead(pos, velocity, -1)) > NormSq(Ahead(pos, velocity, 0))
    /\ NormSq(Ahead(pos, velocity, 0)) > NormSq(Ahead(pos, velocity, 1))

\* the velocity is at a right angle to the line of sight (Pythagoras)
Perpendicular(pos, velocity) ==
    NormSq([j \in 1..3 |-> pos[j] + velocity[j]]) = NormSq(pos) + NormSq(velocity)

\* C9: the slant velocity get_alt_azimuth returns is the projection of the
\* velocity on the observer-to-satellite unit vector, dot(velocity, pos) / |pos|:
\* positive when the satellite recedes, negative when it approaches, zero when
\* the velocity is perpendicular to the line of sight.
C9_SlantVelocityIsProjection ==
    AltAzComputed =>
        LET pos == fn.topocentric.pos
            velocity == fn.topocentric.velocity
            d == fn.result.d
        IN /\ d.num * d.num * NormSq(pos)
                 = Dot(velocity, pos) * Dot(velocity, pos) * d.den * d.den
           /\ Sign(d) * Dot(velocity, pos) >= 0
           /\ Receding(pos, velocity) => Sign(d) = 1
           /\ Approaching(pos, velocity) => Sign(d) = -1
           /\ Perpendicular(pos, velocity) => Sign(d) = 0

\* C9 happens: get_alt_azimuth has returned a slant velocity that is no whole
\* number for a satellite that recedes on a slanted line of sight
C9_Witness ==
    /\ AltAzComputed
    /\ Receding(fn.topocentric.pos, fn.topocentric.velocity)
    /\ Cardinality({ j \in 1..3 : fn.topocentric.pos[j] # 0 }) = 3
    /\ fn.result.d.num > 0
    /\ fn.result.d.den > 1

\* C10 as stated: in the loop of transit_list_sorted_by_time, a satellite whose
\* element set cannot be looked up is skipped or flagged, no exception leaves
\* the loop, and the satellites that remain are still processed.
C10_BatchGoesOn ==
    (/\ call.handler = "transit_list_sorted_by_time"
     /\ ~call.searched
     /\ batch.idx < Len(batch.names)) =>
        /\ batch.pc # "aborted"
        /\ call.raised = "none"

\* what the caller of get_next_passes can observe of a call: the list returned
\* and the exception raised
Observed(r) == <<r.event_list, r.raised>>

\* what the caller observes when the search ran and found no event
EmptySearchObserved ==
    Observed(get_next_passes(<<SatAO7>>, {7}, SatAO7.Satellite, 1, <<>>))

\* C11 as stated: a get_next_passes call that failed before the event search
\* is observed by its caller as something else than a search that found no
\* event in the window.
C11_EmptyDistinctFromFailure ==
    (fn.op = "get_next_passes" /\ fn.done /\ ~fn.result.searched) =>
        Observed(fn.result) # EmptySearchObserved

\* transit_list_sorted_by_time has returned its list
BatchSorted == batch.pc = "done"

\* C12 as stated: the list transit_list_sorted_by_time returns is ordered by
\* rise time, and entries of equal rise time by satellite name (stated for the
\* entries whose rise was found).
C12_ByRiseThenName ==
    BatchSorted =>
        \A i, j \in 1..Len(batch.transit_list) :
            i < j =>
                LET a == batch.transit_list[i]
                    b == batch.transit_list[j]
                IN (a[1] # 0 /\ b[1] # 0) =>
                       \/ a[1] < b[1]
                       \/ a[1] = b[1] /\ Rank(a[4]) <= Rank(b[4])

\* the entries of one sort key, in the order rise, transit, set, name
KeyOf(row) == <<row[1], row[2], row[3], Rank(row[4])>>

\* key a is not after key b
KeyLeq(a, b) ==
    \A m \in 1..4 : (\A n \in 1..(m - 1) : a[n] = b[n]) => a[m] <= b[m]

\* C12 as amended: the list is ordered by rise time (0 for a rise that was not
\* found), entries of equal rise time by transit time, then by set time, and
\* only then by satellite name.
C12_ByRiseTransitSetName ==
    BatchSorted =>
        \A i, j \in 1..Len(batch.transit_list) :
            i < j =>
                LET a == batch.transit_list[i]
                    b == batch.transit_list[j]
                IN /\ a[1] <= b[1]
                   /\ KeyLeq(KeyOf(a), KeyOf(b))

\* two satellites that rise at the same instant: the later name has the
\* earlier transit and is listed first
C12_Witness ==
    /\ BatchSorted
    /\ \E i, j \in 1..Len(batch.transit_list) :
           /\ i < j
           /\ batch.transit_list[i][1] # 0
           /\ batch.transit_list[i][1] = batch.transit_list[j][1]
           /\ batch.transit_list[i][2] # 0
           /\ batch.transit_list[i][2] < batch.transit_list[j][2]
           /\ Rank(batch.transit_list[i][4]) > Rank(batch.transit_list[j][4])

\* the location the user has supplied, each missing part taken from the default
SuppliedHome ==
    Topos(Value(settings.mylatitude, DefaultHome.latitude),
          Value(settings.mylongitude, DefaultHome.longitude),
          FloatValue(settings.myelevation, DefaultHome.elevation_m))

\* C13 as stated: get_alt_azimuth and the event search of get_next_passes use
\* the observer location restored from the settings when one is stored, and
\* the module's default location only otherwise.
C13_UsesSuppliedLocation ==
    (fn.op = "__init__" /\ fn.pc = "called") => fn.observer = SuppliedHome

\* C14 as stated: after load_tles has refreshed the element sets, a look-up by
\* get_alt_azimuth or get_next_passes yields an element set of the refreshed
\* file, never one loaded before (stated for the satellites the refreshed file
\* holds).
C14_UsesRefreshedElements ==
    (/\ fn.op = "load_tles" /\ fn.pc = "called" /\ fn.refreshed
     /\ \E i \in 1..Len(satellite_body_objects) :
            satellite_body_objects[i].satnum = fn.satellite_object.satnum) =>
        \E i \in 1..Len(satellite_body_objects) :
            satellite_body_objects[i] = fn.satellite_object

\* create_pass_line ran in the handler call the call record describes
Sampled == call.outcome = "drawn" /\ Len(next_pass_polar_lines) > 0

\* the events of the call hold an event of that name
HasEvent(name) == \E i \in 1..Len(call.event_list) : call.event_list[i][2] = name

NoPass == call.event_list = <<>>

PartialPass == HasEvent("rise") /\ ~HasEvent("set")

CompletePass == HasEvent("rise") /\ HasEvent("transit") /\ HasEvent("set")

    /\ call.outcome = "drawn"
    /\ lines = <<>> /\ next_pass_polar_lines = <<>>
    /\ ~Sampled

\* a create_pass_line call has returned
LineReturned == fn.op = "create_pass_line" /\ fn.done

\* C16: create_pass_line samples exactly at rise + k * interval, k = 0, 1, ...,
\* as long as that time is before the set time: constant step, first sample at
\* the rise time, no sample at or after the set time, none left out, and no
\* point at all when rise >= set.
C16_RegularSamples ==
    LineReturned =>
        LET n == Len(fn.result)
        IN /\ \A k \in 1..n :
                  /\ fn.result[k].at = fn.rise_time + (k - 1) * fn.interval
                  /\ fn.result[k].at < fn.setting_time
           /\ \A k \in 1..(n - 1) :
                  fn.result[k + 1].at - fn.result[k].at = fn.interval
           /\ fn.rise_time < fn.setting_time =>
                  /\ n > 0
                  /\ fn.result[1].at = fn.rise_time
                  /\ fn.rise_time + n * fn.interval >= fn.setting_time
           /\ fn.rise_time >= fn.setting_time => n = 0

\* what holds of the samples: they are rise + k * interval for k = 0, 1, ... up
\* to the set time, none is after it and none before it is left out
C16_RegularUpToSet ==
    LineReturned =>
        LET n == Len(fn.result)
        IN /\ \A k \in 1..n :
                  /\ fn.result[k].at = fn.rise_time + (k - 1) * fn.interval
                  /\ fn.result[k].at <= fn.setting_time
           /\ fn.rise_time < fn.setting_time =>
                  /\ n > 0
                  /\ fn.rise_time + n * fn.interval >= fn.setting_time
           /\ fn.rise_time >= fn.setting_time => n = 0

\* the seconds since midnight a time text shows
SecondsShown(text) == text[1] * 3600 + text[2] * 60 + text[3]

\* C17: point k (from 0) of the line create_pass_line returns has a time text
\* exactly when text_every_point > 0 and k is a multiple of text_every_point or
\* k is the last point; a text shows the time of its point; with
\* text_every_point = 0 every text is empty.
C17_TextEveryPointAndLast ==
    LineReturned =>
        LET n == Len(fn.result)
        IN \A k \in 0..(n - 1) :
               LET point == fn.result[k + 1]
               IN /\ point.text # NoText <=>
                         /\ fn.text_every_point > 0
                         /\ (k % fn.text_every_point = 0 \/ k = n - 1)
                  /\ point.text # NoText =>
                         /\ Len(point.text) = 3
                         /\ SecondsShown(point.text) % 86400 = point.at % 86400
                  /\ fn.text_every_point = 0 => point.text = NoText

\* a line whose last point is no multiple of text_every_point and has its
\* text, after a point without a text
C17_Witness ==
    /\ LineReturned
    /\ fn.text_every_point >= 2
    /\ Len(fn.result) >= 3
    /\ (Len(fn.result) - 1) % fn.text_every_point # 0
    /\ Last(fn.result).text # NoText
    /\ fn.result[2].text = NoText

\* the entries with `fixed` set, in their order
FixedOnly(list) == SelectSeq(list, LAMBDA t : t[5])

\* the list a clear or a remove works on: before the call, and after it
ListBefore ==
    IF fn.method \in {"clear_texts", "remove_text"} THEN fn.before.texts
    ELSE fn.before.polarTexts

ListAfter ==
    IF fn.method \in {"clear_texts", "remove_text"} THEN fn.graph.texts
    ELSE fn.graph.polarTexts

Cleared == fn.op = "graph" /\ fn.method \in {"clear_texts", "clear_polar_texts"}

\* C18: after clear_texts (clear_polar_texts) the list texts (polarTexts) is the
\* subsequence of its previous entries that have fixed = True, in their previous
\* order, whatever the list held, duplicates included
C18_ClearKeepsFixed == Cleared => ListAfter = FixedOnly(ListBefore)

\* a polar list of a fixed entry between two equal entries that are not fixed
\* has been cleared
C18_Witness ==
    /\ Cleared /\ fn.method = "clear_polar_texts"
    /\ Len(ListBefore) = 3
    /\ ListBefore[1] = ListBefore[3] /\ ~ListBefore[1][5] /\ ListBefore[2][5]
    /\ ListAfter = <<ListBefore[2]>>

Removed == fn.op = "graph" /\ fn.method \in {"remove_text", "remove_polar_text"}

\* the list without its entry at position i
Without(list, i) == [j \in 1..(Len(list) - 1) |-> IF j < i THEN list[j] ELSE list[j + 1]]

Holds(list, e) == \E i \in 1..Len(list) : list[i] = e

\* C19: remove_text (remove_polar_text) removes exactly one entry equal to the
\* combination given and leaves the other entries and their order as they were;
\* when no entry equals the combination it raises ValueError and the list is
\* as it was
C19_RemoveOneOrRaise ==
    Removed =>
        IF Holds(ListBefore, fn.args)
        THEN /\ fn.result = None
             /\ \E i \in 1..Len(ListBefore) :
                   ListBefore[i] = fn.args /\ ListAfter = Without(ListBefore, i)
        ELSE fn.result = "ValueError" /\ ListAfter = ListBefore

\* one of two equal entries has been removed from a list that also holds the
\* entry differing in `fixed` alone
C19_Witness ==
    /\ Removed /\ fn.result = None
    /\ Len(ListBefore) = 3 /\ Len(ListAfter) = 2
    /\ Cardinality({ i \in 1..3 : ListBefore[i] = fn.args }) = 2
    /\ Holds(ListAfter, fn.args)
    /\ \E i \in 1..3 : ListBefore[i] # fn.args /\ ListBefore[i][1] = fn.args[1]

\* a combination that differs from an entry held in `fixed` alone was not found
C19_WitnessValueError ==
    /\ Removed /\ fn.result = "ValueError"
    /\ ListBefore # <<>> /\ ListAfter = ListBefore
    /\ \E i \in 1..Len(ListBefore) : ListBefore[i][1] = fn.args[1]

AxisRanges(graph) == <<graph.xmin, graph.xmax, graph.ymin, graph.ymax>>

Drawn == fn.op = "graph" /\ fn.method = "draw"

\* C20: after any sequence of draw calls, lines equals the arguments of the most
\* recent draw call; draw changes neither texts, polarTexts nor the axis ranges;
\* before the first draw, lines is empty and get_image and save_image return None
C20_DrawReplacesLines ==
    fn.op = "graph" =>
        /\ Drawn => /\ fn.graph.lines = fn.args
                    /\ fn.graph.texts = fn.before.texts
                    /\ fn.graph.polarTexts = fn.before.polarTexts
                    /\ AxisRanges(fn.graph) = AxisRanges(fn.before)
        /\ ~fn.first_draw_done =>
              /\ fn.graph.lines = <<>>
              /\ fn.method \in {"get_image", "save_image"} => fn.result = None

\* a polar graph holding texts of both kinds and the lines of an earlier draw
\* has been drawn with other lines
C20_Witness ==
    /\ Drawn
    /\ fn.before.lines # <<>> /\ fn.args # <<>> /\ fn.args # fn.before.lines
    /\ fn.graph.texts # <<>> /\ fn.graph.polarTexts # <<>>
    /\ fn.graph.xmax = 1 /\ fn.graph.xmin = 0

\* get_image was asked before the first draw
C20_WitnessNoImage ==
    /\ fn.op = "graph" /\ ~fn.first_draw_done /\ fn.method = "save_image"
    /\ fn.graph.texts # <<>>

ReCreated == fn.op = "create" /\ fn.method = "reCreateGraph" /\ fn.raised = "none"

\* the attributes reCreateGraph is to carry over
Carried(graph) ==
    <<graph.class, graph.xmin, graph.xmax, graph.ymin, graph.ymax, graph.xgrids,
      graph.ygrids, graph.xformat, graph.yformat, graph.texts, graph.polarTexts,
      graph.lines>>

\* C21: the graph reCreateGraph returns is of the class of the given graph, its
\* xmin, xmax, ymin, ymax, xgrids, ygrids, label formats, texts, polarTexts and
\* lines equal those of the given graph, its sizes are the new sizes where given
\* and the old sizes where left out, and the given graph is as it was; for
\* Graph, Polar and their subclasses
C21_ReCreateCarriesOver ==
    ReCreated =>
        /\ Carried(fn.new_graph) = Carried(fn.given)
        /\ fn.new_graph.image_size_x = OrOld(fn.args[1], fn.given.image_size_x)
        /\ fn.new_graph.image_size_y = OrOld(fn.args[2], fn.given.image_size_y)
        /\ fn.new_graph.pixel_size = OrOld(fn.args[3], fn.given.pixel_size)
        /\ fn.given_after = fn.given

\* a graph of a subclass of Polar, made with a zero range and a grid count
\* that the constructor replaced, holding texts of both kinds, lines and label
\* formats of its own, was re-created with one size given and one left out
C21_Witness ==
    /\ ReCreated
    /\ fn.given.class = "PolarPoly"
    /\ fn.given.xmin = 0 /\ fn.given.xmax = 1 /\ fn.given.xgrids = 1
    /\ fn.given.texts # <<>> /\ fn.given.polarTexts # <<>> /\ fn.given.lines # <<>>
    /\ fn.given.xformat # "{}"
    /\ fn.args[1] # <<>> /\ fn.args[2] = <<>>
    /\ fn.new_graph.image_size_x # fn.given.image_size_x
    /\ fn.new_graph.image_size_y = fn.given.image_size_y

Constructed == fn.op = "create" /\ fn.method = "__init__"

\* C22: after the construction of a Graph or a Polar with any minimum, maximum
\* and grid count arguments, xmax - xmin and ymax - ymin are not zero and
\* xgrids and ygrids are at least 1, so that tx, ty and pRad do not divide by zero
C22_NoZeroRange ==
    Constructed =>
        /\ fn.graph.xmax - fn.graph.xmin # 0
        /\ fn.graph.ymax - fn.graph.ymin # 0
        /\ fn.graph.xgrids >= 1 /\ fn.graph.ygrids >= 1
        /\ tx(fn.graph) = "none" /\ ty(fn.graph) = "none" /\ pRad(fn.graph) = "none"

\* a draw of a constructed graph raised ZeroDivisionError
C22_DrawDividesByZero ==
    fn.op = "create" /\ fn.method = "draw" /\ fn.raised = "ZeroDivisionError"

\* the NORAD number of an entry is the number of a loaded element set
HasElementSet(entry) == IntParses(entry.Number) /\ StrToInt(entry.Number) \in DOMAIN by_number

\* C23: after set_up_satellite_data, self.satellites holds exactly the entries
\* of the satellite data whose NORAD number is the number of a loaded element
\* set: the Number of every listed satellite is a key of by_number, and the
\* look-up of get_alt_azimuth and get_next_passes succeeds for it
C23_ListedHaveElementSets ==
    /\ satellites = SelectSeq(satellite_data, HasElementSet)
    /\ \A i \in 1..Len(satellites) :
          /\ HasElementSet(satellites[i])
          /\ LookUp(satellites, DOMAIN by_number, satellites[i].Satellite) = "ok"

Written == fn.op = "csv" /\ fn.pc = "done" /\ fn.raised = "none"

\* C24: after on_pushButtonDownloadSatInfo_clicked, the satellites written to
\* satslist.json are only those rows of satslist.csv whose Status field is
\* 'active' (or 'operational'); rows with any other status are filtered out
C24_OnlyActiveWritten ==
    Written =>
        \A i \in 1..Len(fn.sats_dict) : fn.sats_dict[i].Status \in {"active", "operational"}

\* draw_next_passes_for_selected_satellite went through its loop
Drew == call.handler = "draw_next_passes" /\ call.outcome = "drawn"

SetsOf(pass_list) == { i \in 1..Len(pass_list) : pass_list[i][2] = "set" }

RisesBefore(pass_list, i) == { j \in 1..(i - 1) : pass_list[j][2] = "rise" }

\* the last 'rise' in front of event i
RiseOf(pass_list, i) ==
    CHOOSE j \in RisesBefore(pass_list, i) : \A k \in RisesBefore(pass_list, i) : k <= j

\* the number of the 'set' event i among the 'set' events
SetNumber(pass_list, i) == Cardinality({ k \in SetsOf(pass_list) : k <= i })

\* C25: in draw_next_passes_for_selected_satellite every 'set' event has a rise
\* in front of it (a 'rise' event or the rise inserted at now); the line made
\* for the set runs from the rise of the same pass to the set, with
\* rise <= set, and no 'set' lies between the two
C25_RiseOfSamePass ==
    Drew =>
        \A i \in SetsOf(call.pass_list) :
            /\ RisesBefore(call.pass_list, i) # {}
            /\ LET j == RiseOf(call.pass_list, i)
                   n == SetNumber(call.pass_list, i)
               IN /\ \A k \in (j + 1)..(i - 1) : call.pass_list[k][2] # "set"
                  /\ call.pass_list[j][1] <= call.pass_list[i][1]
                  /\ next_pass_polar_lines[n] =
                         create_pass_line(call.pass_list[j][1], call.pass_list[i][1],
                                          DrawInterval,
                                          plot_colours[((n - 1) % Len(plot_colours)) + 1],
                                          DrawTextEvery,
                                          <<call.pass_list[j][1], call.pass_list[i][1]>>
                                              \in call.below,
                                          ShortOf(call.short, call.pass_list[j][1]))

\* the same without the order of rise and set
C25_PairedWithinPass ==
    Drew =>
        \A i \in SetsOf(call.pass_list) :
            /\ RisesBefore(call.pass_list, i) # {}
            /\ LET j == RiseOf(call.pass_list, i)
                   n == SetNumber(call.pass_list, i)
               IN /\ \A k \in (j + 1)..(i - 1) : call.pass_list[k][2] # "set"
                  /\ next_pass_polar_lines[n] =
                         create_pass_line(call.pass_list[j][1], call.pass_list[i][1],
                                          DrawInterval,
                                          plot_colours[((n - 1) % Len(plot_colours)) + 1],
                                          DrawTextEvery,
                                          <<call.pass_list[j][1], call.pass_list[i][1]>>
                                              \in call.below,
                                          ShortOf(call.short, call.pass_list[j][1]))

====
